---- MODULE Spec2Model ----
(***************************************************************************)
(* term-capture: a PTY session recorder.  The parent process forks a child *)
(* on a pseudo-terminal, relays bytes between the real terminal and the    *)
(* child, and records raw logs plus timing/resize sidecars.  The model     *)
(* follows src/term-capture/term-capture.cpp statement by statement: the   *)
(* file-scope statics are the record g, main()'s locals are the record l,  *)
(* the frame of a running SIGCHLD handler is the record h, the files on    *)
(* disk are the record f, and the kernel/environment is the record k.      *)
(***************************************************************************)
EXTENDS Integers, Sequences, FiniteSets, TLC

VARIABLES g, l, h, f, k, x

vars == <<g, l, h, f, k, x>>

(* ------------------------------------------------------------------ *)
(* Bounds of the exploration                                           *)
(* ------------------------------------------------------------------ *)
(* bytes the child writes; value of the last clock reading *)
MaxOut == 2
MaxTime == 2
(* disturbances per run: injected I/O failures, resizes, typed bytes *)
MaxDisturb == 1
(* calls made by the library-build driver *)
MaxLibOps == 5

(* read() chunk: char buf[1024], scaled down *)
BufSize == 2
(* capacity of the self-pipe, scaled down *)
PipeCap == 2

(* ------------------------------------------------------------------ *)
(* Small helpers                                                       *)
(* ------------------------------------------------------------------ *)
Min(a, b) == IF a < b THEN a ELSE b

Take(s, c) == SubSeq(s, 1, Min(c, Len(s)))

Drop(s, c) == SubSeq(s, Min(c, Len(s)) + 1, Len(s))

(* a is the beginning of b; a is the end of b *)
IsPrefix(a, b) == Len(a) <= Len(b) /\ a = SubSeq(b, 1, Len(a))

IsSuffix(a, b) == Len(a) <= Len(b) /\ a = SubSeq(b, Len(b) - Len(a) + 1, Len(b))

RECURSIVE Pow(_, _)
Pow(b, e) == IF e = 0 THEN 1 ELSE b * Pow(b, e - 1)

(* ------------------------------------------------------------------ *)
(* tcap.hpp: ULEB128                                                    *)
(* ------------------------------------------------------------------ *)
RECURSIVE uleb128_encode(_)
uleb128_encode(value) ==
  LET byte == value % 128
      rest == value \div 128
  IN  IF rest # 0 THEN <<byte + 128>> \o uleb128_encode(rest)
      ELSE <<byte>>

(* decode loop: state (i, shift, result); i counts bytes consumed so far *)
RECURSIVE uleb128_decode_loop(_, _, _, _)
uleb128_decode_loop(data, i, shift, result) ==
  IF i >= Len(data) THEN [ok |-> FALSE, consumed |-> 0, value |-> 0]
  ELSE LET byte == data[i + 1]
           part == (byte % 128) * Pow(2, shift)
           res2 == result + part
       IN  IF byte < 128 THEN [ok |-> TRUE, consumed |-> i + 1, value |-> res2]
           ELSE IF shift + 7 >= 64 THEN [ok |-> FALSE, consumed |-> 0, value |-> 0]
           ELSE uleb128_decode_loop(data, i + 1, shift + 7, res2)

uleb128_decode(data) == uleb128_decode_loop(data, 0, 0, 0)

(* The operators above are exact for values below 2^31, which covers   *)
(* every record of the session model.  Over the whole range of uint64_t *)
(* the same code is translated on 64-bit words: a word is the set of    *)
(* the positions of its 1 bits, so that & is a restriction, | a union,  *)
(* >> and << a translation, and << loses what leaves the word.          *)
WordBits == 64

(* the 1 bits of a byte, and the byte with given 1 bits *)
BitsOf(n) == {b \in 0..7 : (n \div Pow(2, b)) % 2 = 1}

RECURSIVE ByteOf(_)
ByteOf(S) ==
  IF S = {} THEN 0
  ELSE LET b == CHOOSE e \in S : TRUE IN Pow(2, b) + ByteOf(S \ {b})

(* tcap.hpp 12-19 *)
RECURSIVE uleb128_encode_w(_)
uleb128_encode_w(value) ==
  LET low == {b \in value : b < 7}
      rest == {b - 7 : b \in {e \in value : e >= 7}}
  IN  IF rest # {} THEN <<ByteOf(low \cup {7})>> \o uleb128_encode_w(rest)
      ELSE <<ByteOf(low)>>

(* a faulty variant: the tenth byte of an encoding is refused *)
shift_overflows_early(shift) == shift >= WordBits - 1

(* tcap.hpp 37 *)
shift_overflows(shift) == shift >= WordBits

(* a faulty variant: a failure reports the bytes it went through *)
uleb128_fail_consumed(i) == [ok |-> FALSE, consumed |-> i, value |-> {}, reads |-> i]

(* tcap.hpp 38 and 41: {false, 0}; reads counts the bytes data[0..i-1] read *)
uleb128_fail(i) == [ok |-> FALSE, consumed |-> 0, value |-> {}, reads |-> i]

(* tcap.hpp 28-41 *)
RECURSIVE uleb128_decode_w_loop(_, _, _, _)
uleb128_decode_w_loop(data, i, shift, result) ==
  IF ~(i < Len(data)) THEN uleb128_fail(i)
  ELSE LET byte == data[i + 1]
           part == {b + shift : b \in BitsOf(byte) \ {7}} \cap (0..(WordBits - 1))
           res2 == result \cup part
       IN  IF 7 \notin BitsOf(byte)
           THEN [ok |-> TRUE, consumed |-> i + 1, value |-> res2, reads |-> i + 1]
           ELSE IF shift_overflows(shift + 7) THEN uleb128_fail(i + 1)
           ELSE uleb128_decode_w_loop(data, i + 1, shift + 7, res2)

(* tcap.hpp 24-42 *)
uleb128_decode_w(data) == uleb128_decode_w_loop(data, 0, 0, {})

(* write_u64_le, lines 371-377: the 8 little-endian bytes of v *)
RECURSIVE le_bytes(_, _)
le_bytes(v, cnt) == IF cnt = 0 THEN <<>> ELSE <<v % 256>> \o le_bytes(v \div 256, cnt - 1)

write_u64_le(v) == le_bytes(v, 8)

TidxMagic == <<84, 73, 68, 88, 49>>
EvtMagic == <<69, 86, 84, 49>>

tidx_header(started) == TidxMagic \o <<0>> \o write_u64_le(started)

events_header(started) == EvtMagic \o <<0>> \o write_u64_le(started)

(* ------------------------------------------------------------------ *)
(* Names of the signals, descriptors and modes                          *)
(* ------------------------------------------------------------------ *)
TermSignals == {"SIGINT", "SIGTERM", "SIGQUIT"}

(* the terminal's modes: what the user had, raw, and an all-zero termios *)
UserModes == {"cooked"}
WinSizes == {<<80, 24>>, <<200, 50>>}
StartTimes == {258}

(* descriptor numbers handed out by the kernel *)
FdMaster == 3
FdInTidx == 6
FdOutTidx == 7
FdEvents == 8
FdPipeR == 9
FdPipeW == 10
ChildPid == 42

(* ------------------------------------------------------------------ *)
(* Initial state: statics as initialised at lines 28-35, no child yet   *)
(* ------------------------------------------------------------------ *)
InitG ==
  [should_exit |-> FALSE, orig_termios |-> "zero", have_orig_termios |-> FALSE,
   masterFd |-> -1, child_pid |-> -1, did_cleanup |-> FALSE,
   winch_pending |-> 0, winch_pipe_fds |-> <<-1, -1>>]

InitL ==
  [pc |-> "parse", stdin_open |-> TRUE, fds |-> {}, ret |-> "none", n |-> 0,
   buf |-> <<>>, after_winch |-> "none",
   logs_open |-> FALSE, atexit_restore |-> FALSE, started_unix_ns |-> 0,
   input_tidx_fd |-> -1, output_tidx_fd |-> -1, output_events_fd |-> -1,
   input_prev_t_ns |-> 0, output_prev_t_ns |-> 0,
   input_prev_end |-> 0, output_prev_end |-> 0,
   input_end |-> 0, output_end |-> 0,
   events_prev_t_ns |-> 0, events_prev_off |-> 0]

InitH == [pc |-> "none"]

InitF ==
  [input |-> <<>>, output |-> <<>>, input_tidx |-> <<>>, output_tidx |-> <<>>,
   events |-> <<>>, meta |-> 0, exists |-> {}]

InitK(tty, ctl, mode, ws) ==
  [proc |-> "running", exit_code |-> -1, lib |-> FALSE,
   stdin_tty |-> tty, ctl_tty |-> ctl, term |-> mode,
   installed |-> {}, chld_pending |-> FALSE,
   child |-> "none", child_termed |-> FALSE, master_open |-> FALSE,
   ptybuf |-> <<>>, childWrote |-> 0,
   stdin_buf |-> <<>>, stdin_eof |-> FALSE, typed |-> 0,
   to_child |-> <<>>, to_stdout |-> <<>>,
   pipe_bytes |-> 0, tty_ws |-> ws, pty_ws |-> <<0, 0>>, pgrp_winch |-> 0,
   now |-> 0, eintr |-> FALSE, quota |-> MaxDisturb, faults |-> 0, resizes |-> 0]

(* history of what the program did, read only by the properties *)
InitX ==
  [cleanups |-> 0, closes |-> <<>>, kills |-> <<>>, waits |-> <<>>,
   raw_entered |-> FALSE, saved_mode |-> "none", restores |-> 0,
   term_seen |-> FALSE, lib_last |-> "none", lib_ops |-> 0, warnings |-> {},
   in_calls |-> <<>>, out_calls |-> <<>>, resize_calls |-> <<>>]

Init ==
  /\ g = InitG
  /\ l = InitL
  /\ h = InitH
  /\ f = InitF
  /\ \E tty \in BOOLEAN, ctl \in BOOLEAN, mode \in UserModes :
        /\ tty => ctl
        /\ ~tty => mode = "cooked"
        /\ k = InitK(tty, ctl, mode, <<80, 24>>)
  /\ x = InitX

(* ------------------------------------------------------------------ *)
(* Program text shared by several steps                                 *)
(* ------------------------------------------------------------------ *)
Main(label) == k.proc = "running" /\ ~k.lib /\ h.pc = "none" /\ l.pc = label

Goto(label) == [l EXCEPT !.pc = label]

(* a faulty variant: the have_orig_termios test of line 39 left out *)
restore_terminal_unguarded(gg, kk) ==
  IF kk.stdin_tty THEN [kk EXCEPT !.term = gg.orig_termios] ELSE kk

(* lines 38-42: tcsetattr(orig_termios) only when a mode was captured *)
restore_terminal(gg, kk) ==
  IF gg.have_orig_termios /\ kk.stdin_tty THEN [kk EXCEPT !.term = gg.orig_termios] ELSE kk

(* a faulty variant: the status passed to exit() is lost *)
exit_status_dropped(gg, kk, code) ==
  [(IF l.atexit_restore THEN restore_terminal(gg, kk) ELSE kk)
     EXCEPT !.proc = "exited", !.exit_code = 0]

(* a faulty variant: the process always ends with status 1 *)
exit_failure(gg, kk, code) ==
  [(IF l.atexit_restore THEN restore_terminal(gg, kk) ELSE kk)
     EXCEPT !.proc = "exited", !.exit_code = 1]

(* exit(code): run the atexit handler registered at line 495, then end *)
exit_(gg, kk, code) ==
  [(IF l.atexit_restore THEN restore_terminal(gg, kk) ELSE kk)
     EXCEPT !.proc = "exited", !.exit_code = code]

NoteRestore(xx) == [xx EXCEPT !.restores = Min(@ + 1, 3)]

(* what is left of the run's disturbance budget *)
FaultsLeft ==
  LET used == k.faults + k.resizes + k.typed
  IN  IF used >= k.quota THEN 0 ELSE k.quota - used

(* write_all on a sidecar descriptor: all bytes, or nothing when it fails *)
write_all(file, bytes, ok) == IF ok THEN file \o bytes ELSE file

(* sets of failing write_all calls among calls 1..cnt, within the budget *)
FailSets(cnt) == {S \in SUBSET (1..cnt) : Cardinality(S) <= FaultsLeft}

(* ------------------------------------------------------------------ *)
(* main(): setup, lines 264-555                                         *)
(* ------------------------------------------------------------------ *)
(* 265-270: an invalid configuration prints usage and returns 1 *)
ParseArgs ==
  /\ Main("parse")
  /\ \E valid \in BOOLEAN :
       IF valid THEN l' = Goto("openpt") /\ k' = k
       ELSE l' = Goto("done") /\ k' = exit_(g, k, 1)
  /\ UNCHANGED <<g, h, f, x>>

(* 283-289 *)
OpenPt ==
  /\ Main("openpt")
  /\ \/ /\ g' = [g EXCEPT !.masterFd = FdMaster]
        /\ k' = [k EXCEPT !.master_open = TRUE]
        /\ l' = Goto("ptsname")
     \/ /\ g' = g
        /\ k' = exit_(g, k, 1)
        /\ l' = Goto("done")
  /\ UNCHANGED <<h, f, x>>

(* 292-297 *)
PtsName ==
  /\ Main("ptsname")
  /\ \/ /\ l' = Goto("fork") /\ k' = k /\ x' = x
     \/ /\ l' = Goto("done")
        /\ k' = exit_(g, [k EXCEPT !.master_open = FALSE], 1)
        /\ x' = [x EXCEPT !.closes = Append(@, "master")]
  /\ UNCHANGED <<g, h, f>>

(* 300-305; the child branch 307-335 runs in the child process *)
Fork ==
  /\ Main("fork")
  /\ \/ /\ g' = [g EXCEPT !.child_pid = ChildPid]
        /\ k' = [k EXCEPT !.child = "running"]
        /\ l' = Goto("open_logs")
        /\ x' = x
     \/ /\ g' = [g EXCEPT !.child_pid = -1]
        /\ k' = exit_(g, [k EXCEPT !.master_open = FALSE], 1)
        /\ l' = Goto("done")
        /\ x' = [x EXCEPT !.closes = Append(@, "master")]
  /\ UNCHANGED <<h, f>>

(* 338-347: both streams are opened (created) before the test *)
OpenLogs ==
  /\ Main("open_logs")
  /\ \E in_ok \in BOOLEAN, out_ok \in BOOLEAN :
       /\ f' = [f EXCEPT !.exists = @ \cup (IF in_ok THEN {"input"} ELSE {})
                                      \cup (IF out_ok THEN {"output"} ELSE {})]
       /\ IF in_ok /\ out_ok
          THEN l' = [l EXCEPT !.pc = "open_sidecars", !.logs_open = TRUE] /\ k' = k
          ELSE l' = Goto("done") /\ k' = exit_(g, k, 1)
  /\ UNCHANGED <<g, h, x>>

(* 383-385: open_trunc of the three sidecars, each may fail *)
OpenSidecars ==
  /\ Main("open_sidecars")
  /\ \E bad \in FailSets(3) :
       /\ l' = [l EXCEPT !.pc = "headers",
                         !.input_tidx_fd = IF 1 \in bad THEN -1 ELSE FdInTidx,
                         !.output_tidx_fd = IF 2 \in bad THEN -1 ELSE FdOutTidx,
                         !.output_events_fd = IF 3 \in bad THEN -1 ELSE FdEvents]
       /\ f' = [f EXCEPT !.exists = @ \cup (IF 1 \in bad THEN {} ELSE {"input_tidx"})
                                      \cup (IF 2 \in bad THEN {} ELSE {"output_tidx"})
                                      \cup (IF 3 \in bad THEN {} ELSE {"events"})]
       /\ k' = [k EXCEPT !.faults = @ + Cardinality(bad)]
  /\ UNCHANGED <<g, h, x>>

(* 399-431: headers.  bad names the failing header writes: 1 input index, *)
(* 2 output index, 3 event log; the || at line 413 skips the second       *)
(* header once the first failed.  Each branch that gives a sidecar up     *)
(* prints its warning on stderr (lines 414, 421, 425, 430).               *)
WriteHeaders ==
  /\ Main("headers")
  /\ \E started \in StartTimes, bad \in FailSets(3) :
       LET tidx_ok == l.input_tidx_fd >= 0 /\ l.output_tidx_fd >= 0
           events_ok == l.output_events_fd >= 0
           in_try == tidx_ok
           out_try == tidx_ok /\ 1 \notin bad
           tidx_fail == tidx_ok /\ (1 \in bad \/ 2 \in bad)
           ev_fail == events_ok /\ 3 \in bad
           used == (IF in_try /\ 1 \in bad THEN 1 ELSE 0)
                   + (IF out_try /\ 2 \in bad THEN 1 ELSE 0)
                   + (IF ev_fail THEN 1 ELSE 0)
       IN
       /\ used = Cardinality(bad)
       /\ f' = [f EXCEPT
                 !.input_tidx = IF in_try THEN write_all(@, tidx_header(started), 1 \notin bad) ELSE @,
                 !.output_tidx = IF out_try THEN write_all(@, tidx_header(started), 2 \notin bad) ELSE @,
                 !.events = IF events_ok THEN write_all(@, events_header(started), 3 \notin bad) ELSE @]
       /\ l' = [l EXCEPT !.pc = "meta", !.started_unix_ns = started,
                 !.input_tidx_fd = IF tidx_fail THEN -1 ELSE @,
                 !.output_tidx_fd = IF tidx_fail THEN -1 ELSE @,
                 !.output_events_fd = IF ev_fail THEN -1 ELSE @]
       /\ k' = [k EXCEPT !.faults = @ + used]
       /\ x' = [x EXCEPT !.warnings =
                   (IF ~tidx_ok \/ tidx_fail THEN {"tidx"} ELSE {})
                   \cup (IF ~events_ok \/ ev_fail THEN {"events"} ELSE {})]
  /\ UNCHANGED <<g, h>>

(* 434-445 *)
WriteMeta ==
  /\ Main("meta")
  /\ \E ok \in BOOLEAN :
       /\ ~ok => FaultsLeft > 0
       /\ f' = IF ok THEN [f EXCEPT !.meta = l.started_unix_ns, !.exists = @ \cup {"meta"}]
               ELSE f
       /\ k' = [k EXCEPT !.faults = IF ok THEN @ ELSE @ + 1]
  /\ l' = Goto("raw")
  /\ UNCHANGED <<g, h, x>>

(* a faulty variant: every standard input taken for a terminal *)
isatty_always(kk) == TRUE

(* 489: isatty(STDIN_FILENO) *)
isatty(kk) == kk.stdin_tty

(* 487-496: tcgetattr may fail even on a terminal *)
EnterRaw ==
  /\ Main("raw")
  /\ \E got \in BOOLEAN :
       /\ got => isatty(k)
       /\ (~got /\ k.stdin_tty) => FaultsLeft > 0
       /\ IF got
          THEN /\ g' = [g EXCEPT !.orig_termios = k.term, !.have_orig_termios = TRUE]
               /\ k' = [k EXCEPT !.term = "raw"]
               /\ l' = [l EXCEPT !.pc = "sig_int", !.atexit_restore = TRUE]
               /\ x' = [x EXCEPT !.raw_entered = TRUE, !.saved_mode = k.term]
          ELSE /\ g' = g
               /\ k' = [k EXCEPT !.faults = IF k.stdin_tty THEN @ + 1 ELSE @]
               /\ l' = Goto("sig_int")
               /\ x' = x
  /\ UNCHANGED <<h, f>>

(* 499-504: one signal() call per step *)
InstallStep(label, sig, next) ==
  /\ Main(label)
  /\ k' = [k EXCEPT !.installed = @ \cup {sig}]
  /\ l' = Goto(next)
  /\ UNCHANGED <<g, h, f, x>>

InstallHandlers ==
  \/ InstallStep("sig_int", "SIGINT", "sig_term")
  \/ InstallStep("sig_term", "SIGTERM", "sig_quit")
  \/ InstallStep("sig_quit", "SIGQUIT", "sig_chld")
  \/ InstallStep("sig_chld", "SIGCHLD", "sig_winch")
  \/ InstallStep("sig_winch", "SIGWINCH", "pipe")

(* 507-514 *)
MakePipe ==
  /\ Main("pipe")
  /\ \E ok \in BOOLEAN :
       /\ ~ok => FaultsLeft > 0
       /\ g' = IF ok THEN [g EXCEPT !.winch_pipe_fds = <<FdPipeR, FdPipeW>>] ELSE g
       /\ k' = [k EXCEPT !.faults = IF ok THEN @ ELSE @ + 1]
  /\ l' = Goto("init_winsize")
  /\ UNCHANGED <<h, f, x>>

(* ------------------------------------------------------------------ *)
(* Sidecar records                                                      *)
(* ------------------------------------------------------------------ *)
(* 456-466: the new index file and (prev_t, prev_end); bad = failing writes *)
write_tidx_record(file, t_ns, end_off, prev_t, prev_end, bad) ==
  LET dt == IF prev_t = 0 THEN t_ns ELSE t_ns - prev_t
      dend == IF prev_end = 0 THEN end_off ELSE end_off - prev_end
      dt_enc == uleb128_encode(dt)
      de_enc == uleb128_encode(dend)
  IN  IF 1 \in bad THEN [file |-> file, prev_t |-> prev_t, prev_end |-> prev_end]
      ELSE IF 2 \in bad
           THEN [file |-> file \o dt_enc, prev_t |-> prev_t, prev_end |-> prev_end]
      ELSE [file |-> file \o dt_enc \o de_enc, prev_t |-> t_ns, prev_end |-> end_off]

(* 468-485: the type byte's failure returns; the four others are ignored *)
write_resize_event(ll, events, t_ns, out_off, cols, rows, bad) ==
  LET dt == IF ll.events_prev_t_ns = 0 THEN t_ns ELSE t_ns - ll.events_prev_t_ns
      doff == IF ll.events_prev_off = 0 THEN out_off ELSE out_off - ll.events_prev_off
      body == write_all(write_all(write_all(write_all(events \o <<1>>,
                  uleb128_encode(dt), 2 \notin bad),
                  uleb128_encode(doff), 3 \notin bad),
                  uleb128_encode(cols), 4 \notin bad),
                  uleb128_encode(rows), 5 \notin bad)
  IN  IF ll.output_events_fd < 0 \/ 1 \in bad
      THEN [events |-> events, prev_t |-> ll.events_prev_t_ns, prev_off |-> ll.events_prev_off]
      ELSE [events |-> body, prev_t |-> t_ns, prev_off |-> out_off]

(* 405-408: a reading of the monotonic clock, elapsed since the start: *)
(* positive and never below an earlier reading                         *)
now_mono_ns == {t \in 1..MaxTime : t >= k.now}

(* which failing sets make sense for a write_resize_event call *)
ResizeFailSets ==
  IF l.output_events_fd < 0 THEN {{}}
  ELSE {S \in FailSets(5) : 1 \in S => S = {1}}

TidxFailSets == {S \in FailSets(2) : 1 \in S => S = {1}}

(* 518-524 and 584-588, 601-605: query the size, append a resize event *)
ResizeEventStep(label, out_off, next) ==
  /\ Main(label)
  /\ IF k.ctl_tty
     THEN \E t \in now_mono_ns, bad \in ResizeFailSets :
            LET r == write_resize_event(l, f.events, t, out_off,
                                        k.tty_ws[1], k.tty_ws[2], bad)
            IN /\ f' = [f EXCEPT !.events = r.events]
               /\ l' = [l EXCEPT !.pc = next,
                                 !.events_prev_t_ns = r.prev_t,
                                 !.events_prev_off = r.prev_off]
               /\ k' = [k EXCEPT !.now = t, !.faults = @ + Cardinality(bad)]
               /\ x' = [x EXCEPT !.resize_calls =
                           Append(@, <<t, out_off, k.tty_ws[1], k.tty_ws[2]>>)]
     ELSE /\ l' = Goto(next)
          /\ UNCHANGED <<f, k, x>>
  /\ UNCHANGED <<g, h>>

(* 84-98: forward the size to the child PTY and signal its process      *)
(* group (93-97; the child itself when the PTY names no group);         *)
(* pgrp_winch counts the SIGWINCH sent to the child's side              *)
apply_winsize_to_child_pty(kk) ==
  IF g.masterFd < 0 \/ ~kk.ctl_tty THEN kk
  ELSE [kk EXCEPT !.pty_ws = kk.tty_ws, !.pgrp_winch = @ + 1]

ApplyWinsizeStep(label, next) ==
  /\ Main(label)
  /\ k' = apply_winsize_to_child_pty(k)
  /\ l' = Goto(next)
  /\ UNCHANGED <<g, h, f, x>>

(* 517 *)
InitWinsize == ApplyWinsizeStep("init_winsize", "init_resize")

(* 518-555: the initial resize event; the WS stub notice writes no state *)
InitResize == ResizeEventStep("init_resize", 0, "loop_test")

(* ------------------------------------------------------------------ *)
(* main(): the relay loop, lines 558-645                                *)
(* ------------------------------------------------------------------ *)
(* 559 *)
LoopTest ==
  /\ Main("loop_test")
  /\ l' = [l EXCEPT !.pc = IF g.should_exit THEN "close_logs" ELSE "select",
                    !.fds = {}, !.ret = "none", !.n = 0, !.buf = <<>>,
                    !.after_winch = "none"]
  /\ UNCHANGED <<g, h, f, k, x>>

(* 560-577: build the sets and enter select() *)
SelectCall ==
  /\ Main("select")
  /\ l' = Goto("in_select")
  /\ k' = [k EXCEPT !.eintr = FALSE]
  /\ UNCHANGED <<g, h, f, x>>

(* the child's side of the PTY is closed once the child is gone *)
SlaveClosed == k.child \in {"zombie", "reaped"}

(* a faulty variant: select() does not watch the wake pipe *)
ReadyWithoutPipe ==
  (IF l.stdin_open /\ (k.stdin_buf # <<>> \/ k.stdin_eof) THEN {"stdin"} ELSE {})
  \cup (IF k.ptybuf # <<>> \/ SlaveClosed THEN {"master"} ELSE {})

(* 560-577: the descriptors of the set that are readable *)
Ready ==
  (IF l.stdin_open /\ (k.stdin_buf # <<>> \/ k.stdin_eof) THEN {"stdin"} ELSE {})
  \cup (IF k.ptybuf # <<>> \/ SlaveClosed THEN {"master"} ELSE {})
  \cup (IF g.winch_pipe_fds[1] >= 0 /\ k.pipe_bytes > 0 THEN {"pipe"} ELSE {})

(* a faulty variant: an interrupted wait falls through to the reads *)
after_eintr_falls_through == "s_read"

(* 591: continue *)
after_eintr == "loop_test"

(* 577-592: select() returns: interrupted, ready, or failed *)
SelectReturn ==
  /\ Main("in_select")
  /\ \/ /\ k.eintr
        /\ l' = [l EXCEPT !.pc = "winch_check", !.ret = "eintr", !.after_winch = after_eintr]
        /\ k' = [k EXCEPT !.eintr = FALSE]
     \/ /\ Ready # {}
        /\ l' = [l EXCEPT !.pc = "drain_pipe", !.ret = "ready", !.fds = Ready]
        /\ k' = [k EXCEPT !.eintr = FALSE]
     \/ /\ FaultsLeft > 0
        /\ l' = [l EXCEPT !.pc = "close_logs", !.ret = "error"]
        /\ k' = [k EXCEPT !.eintr = FALSE, !.faults = @ + 1]
  /\ UNCHANGED <<g, h, f, x>>

(* 594-598 *)
DrainPipe ==
  /\ Main("drain_pipe")
  /\ k' = IF g.winch_pipe_fds[1] >= 0 /\ "pipe" \in l.fds
          THEN [k EXCEPT !.pipe_bytes = 0] ELSE k
  /\ l' = [l EXCEPT !.pc = "winch_check", !.after_winch = "s_read"]
  /\ UNCHANGED <<g, h, f, x>>

(* 582-583 and 599-600: test and clear the flag *)
WinchCheck ==
  /\ Main("winch_check")
  /\ IF g.winch_pending # 0
     THEN g' = [g EXCEPT !.winch_pending = 0] /\ l' = Goto("winch_event")
     ELSE g' = g /\ l' = Goto(l.after_winch)
  /\ UNCHANGED <<h, f, k, x>>

(* a faulty variant: the record is tagged with the start of the stream *)
WinchEventAtStart == ResizeEventStep("winch_event", 0, "winch_apply")

(* 584-588 and 601-605 *)
WinchEvent == ResizeEventStep("winch_event", l.output_end, "winch_apply")

WinchApply == ApplyWinsizeStep("winch_apply", l.after_winch)

(* 610-612, 622-626: read(STDIN) when it is in the ready set *)
StdinRead ==
  /\ Main("s_read")
  /\ IF l.stdin_open /\ "stdin" \in l.fds
     THEN \/ /\ k.stdin_buf # <<>>
             /\ l' = [l EXCEPT !.pc = "s_fwd", !.buf = Take(k.stdin_buf, BufSize),
                               !.n = Min(Len(k.stdin_buf), BufSize)]
             /\ k' = [k EXCEPT !.stdin_buf = Drop(@, BufSize)]
          \/ /\ k.stdin_buf = <<>> /\ k.stdin_eof
             /\ l' = [l EXCEPT !.pc = "m_read", !.n = 0, !.stdin_open = FALSE]
             /\ k' = k
          \/ /\ FaultsLeft > 0
             /\ l' = [l EXCEPT !.pc = "m_read", !.n = -1]
             /\ k' = [k EXCEPT !.faults = @ + 1]
     ELSE l' = Goto("m_read") /\ k' = k
  /\ UNCHANGED <<g, h, f, x>>

(* 614: write(masterFd, buf, n), result unchecked: w bytes get through *)
StdinForward ==
  /\ Main("s_fwd")
  /\ \E w \in 0..l.n :
       /\ w < l.n => FaultsLeft > 0
       /\ k' = [k EXCEPT !.to_child = @ \o Take(l.buf, w),
                         !.faults = IF w < l.n THEN @ + 1 ELSE @]
  /\ l' = Goto("s_log")
  /\ UNCHANGED <<g, h, f, x>>

(* 616-617 *)
StdinLog ==
  /\ Main("s_log")
  /\ f' = [f EXCEPT !.input = @ \o l.buf]
  /\ l' = Goto("s_adv")
  /\ UNCHANGED <<g, h, k, x>>

(* 618 *)
StdinAdvance ==
  /\ Main("s_adv")
  /\ l' = [l EXCEPT !.pc = "s_tidx", !.input_end = @ + l.n]
  /\ UNCHANGED <<g, h, f, k, x>>

(* 619-621 *)
StdinTidx ==
  /\ Main("s_tidx")
  /\ IF l.input_tidx_fd >= 0
     THEN \E t \in now_mono_ns, bad \in TidxFailSets :
            LET r == write_tidx_record(f.input_tidx, t, l.input_end,
                                       l.input_prev_t_ns, l.input_prev_end, bad)
            IN /\ f' = [f EXCEPT !.input_tidx = r.file]
               /\ l' = [l EXCEPT !.pc = "m_read", !.input_prev_t_ns = r.prev_t,
                                 !.input_prev_end = r.prev_end]
               /\ k' = [k EXCEPT !.now = t, !.faults = @ + Cardinality(bad)]
               /\ x' = [x EXCEPT !.in_calls = Append(@, <<t, l.input_end>>)]
     ELSE l' = Goto("m_read") /\ UNCHANGED <<f, k, x>>
  /\ UNCHANGED <<g, h>>

(* 630-632: read(masterFd); with the slave closed it returns 0 or -1 (EIO) *)
MasterRead ==
  /\ Main("m_read")
  /\ IF "master" \in l.fds
     THEN \/ /\ k.ptybuf # <<>>
             /\ l' = [l EXCEPT !.pc = "m_fwd", !.buf = Take(k.ptybuf, BufSize),
                               !.n = Min(Len(k.ptybuf), BufSize)]
             /\ k' = [k EXCEPT !.ptybuf = Drop(@, BufSize)]
          \/ /\ k.ptybuf = <<>>
             /\ \E r \in {-1, 0} : l' = [l EXCEPT !.pc = "loop_test", !.n = r]
             /\ k' = k
     ELSE l' = Goto("loop_test") /\ k' = k
  /\ UNCHANGED <<g, h, f, x>>

(* 635 *)
MasterForward ==
  /\ Main("m_fwd")
  /\ k' = [k EXCEPT !.to_stdout = @ \o l.buf]
  /\ l' = Goto("m_log")
  /\ UNCHANGED <<g, h, f, x>>

(* 637-638 *)
MasterLog ==
  /\ Main("m_log")
  /\ f' = [f EXCEPT !.output = @ \o l.buf]
  /\ l' = Goto("m_adv")
  /\ UNCHANGED <<g, h, k, x>>

(* a faulty variant: the offset is not advanced *)
MasterAdvanceSkipped ==
  /\ Main("m_adv")
  /\ l' = Goto("m_tidx")
  /\ UNCHANGED <<g, h, f, k, x>>

(* 639 *)
MasterAdvance ==
  /\ Main("m_adv")
  /\ l' = [l EXCEPT !.pc = "m_tidx", !.output_end = @ + l.n]
  /\ UNCHANGED <<g, h, f, k, x>>

(* 640-642 *)
MasterTidx ==
  /\ Main("m_tidx")
  /\ IF l.output_tidx_fd >= 0
     THEN \E t \in now_mono_ns, bad \in TidxFailSets :
            LET r == write_tidx_record(f.output_tidx, t, l.output_end,
                                       l.output_prev_t_ns, l.output_prev_end, bad)
            IN /\ f' = [f EXCEPT !.output_tidx = r.file]
               /\ l' = [l EXCEPT !.pc = "loop_test", !.output_prev_t_ns = r.prev_t,
                                 !.output_prev_end = r.prev_end]
               /\ k' = [k EXCEPT !.now = t, !.faults = @ + Cardinality(bad)]
               /\ x' = [x EXCEPT !.out_calls = Append(@, <<t, l.output_end>>)]
     ELSE l' = Goto("loop_test") /\ UNCHANGED <<f, k, x>>
  /\ UNCHANGED <<g, h>>

(* ------------------------------------------------------------------ *)
(* main(): draining, lines 647-652                                      *)
(* ------------------------------------------------------------------ *)
CloseLogs ==
  /\ Main("close_logs")
  /\ l' = [l EXCEPT !.pc = "close_sidecars", !.logs_open = FALSE]
  /\ UNCHANGED <<g, h, f, k, x>>

(* 649-652: the sidecar descriptors are closed, then cleanup_and_exit(0) *)
CloseSidecars ==
  /\ Main("close_sidecars")
  /\ l' = Goto("c_restore")
  /\ x' = [x EXCEPT !.closes = @
             \o (IF l.input_tidx_fd >= 0 THEN <<"input_tidx">> ELSE <<>>)
             \o (IF l.output_tidx_fd >= 0 THEN <<"output_tidx">> ELSE <<>>)
             \o (IF l.output_events_fd >= 0 THEN <<"events">> ELSE <<>>)]
  /\ UNCHANGED <<g, h, f, k>>

(* ------------------------------------------------------------------ *)
(* cleanup(), lines 44-65, one statement per step, as a function of the *)
(* statics, the kernel and the history: st = [g, k, x].  main() runs it *)
(* a step at a time, so that a handler can arrive between statements.   *)
(* ------------------------------------------------------------------ *)
CleanupLabels ==
  {"c_restore", "c_pipe_r", "c_pipe_r_clr", "c_pipe_w", "c_pipe_w_clr",
   "c_master", "c_master_clr", "c_kill", "c_wait", "c_clearpid", "c_msg"}

(* waitpid(child_pid, nullptr, 0) at line 60 blocks while the child runs *)
CleanupCanStep(at, st) == ~(at = "c_wait" /\ st.k.child = "running")

(* a faulty variant: the descriptor is closed but not forgotten *)
keep_masterFd(gg) == gg

(* 56: masterFd = -1 *)
reset_masterFd(gg) == [gg EXCEPT !.masterFd = -1]

(* 61: child_pid = -1 *)
reset_child_pid(gg) == [gg EXCEPT !.child_pid = -1]

cleanup_step(at, st) ==
  CASE at = "c_restore" ->                                   \* 45
         [st EXCEPT !.at = "c_pipe_r", !.k = restore_terminal(st.g, st.k),
                    !.x = [NoteRestore(st.x) EXCEPT !.cleanups = @ + 1]]
    [] at = "c_pipe_r" ->                                    \* 46-47
         IF st.g.winch_pipe_fds[1] >= 0
         THEN [st EXCEPT !.at = "c_pipe_r_clr", !.x.closes = Append(@, "pipe_r")]
         ELSE [st EXCEPT !.at = "c_pipe_w"]
    [] at = "c_pipe_r_clr" ->                                \* 48
         [st EXCEPT !.at = "c_pipe_w", !.g.winch_pipe_fds[1] = -1]
    [] at = "c_pipe_w" ->                                    \* 50-51
         IF st.g.winch_pipe_fds[2] >= 0
         THEN [st EXCEPT !.at = "c_pipe_w_clr", !.x.closes = Append(@, "pipe_w")]
         ELSE [st EXCEPT !.at = "c_master"]
    [] at = "c_pipe_w_clr" ->                                \* 52
         [st EXCEPT !.at = "c_master", !.g.winch_pipe_fds[2] = -1]
    [] at = "c_master" ->                                    \* 54-55
         IF st.g.masterFd >= 0
         THEN [st EXCEPT !.at = "c_master_clr", !.x.closes = Append(@, "master"),
                         !.k.master_open = FALSE]
         ELSE [st EXCEPT !.at = "c_kill"]
    [] at = "c_master_clr" ->                                \* 56
         [st EXCEPT !.at = "c_kill", !.g = reset_masterFd(st.g)]
    [] at = "c_kill" ->                                      \* 58-59
         IF st.g.child_pid > 0
         THEN [st EXCEPT !.at = "c_wait", !.x.kills = Append(@, st.k.child),
                         !.k.child_termed = @ \/ (st.k.child = "running")]
         ELSE [st EXCEPT !.at = "c_msg"]
    [] at = "c_wait" ->                                      \* 60
         [st EXCEPT !.at = "c_clearpid", !.x.waits = Append(@, st.k.child),
                    !.k.child = IF @ = "zombie" THEN "reaped" ELSE @]
    [] at = "c_clearpid" ->                                  \* 61
         [st EXCEPT !.at = "c_msg", !.g = reset_child_pid(st.g)]
    [] at = "c_msg" ->                                       \* 63-64
         [st EXCEPT !.at = "c_ret", !.g.did_cleanup = TRUE]

(* cleanup() run from label `at` until it returns or blocks in waitpid *)
RECURSIVE cleanup(_, _)
cleanup(at, st) ==
  IF at \notin CleanupLabels \/ ~CleanupCanStep(at, st) THEN [st EXCEPT !.at = at]
  ELSE CHOOSE done \in {cleanup(r.at, r) : r \in {cleanup_step(at, st)}} : TRUE

Now == [at |-> "none", g |-> g, k |-> k, x |-> x]

MainCleanup ==
  /\ k.proc = "running" /\ ~k.lib /\ h.pc = "none"
  /\ l.pc \in CleanupLabels
  /\ CleanupCanStep(l.pc, Now)
  /\ \E r \in {cleanup_step(l.pc, Now)} :
        g' = r.g /\ k' = r.k /\ x' = r.x /\ l' = Goto(r.at)
  /\ UNCHANGED <<h, f>>

(* 67-74, 652: exit(0) after cleanup() returned to main *)
MainExit ==
  /\ Main("c_ret")
  /\ k' = exit_(g, k, 0)
  /\ x' = IF l.atexit_restore THEN NoteRestore(x) ELSE x
  /\ l' = Goto("done")
  /\ UNCHANGED <<g, h, f>>

(* ------------------------------------------------------------------ *)
(* signal_handler(SIGCHLD), lines 102-111.  The handler runs on main's  *)
(* stack with SIGCHLD blocked, so main does not move until it returns:  *)
(* it is one step, unless its cleanup() blocks in waitpid.              *)
(* ------------------------------------------------------------------ *)
(* a handler that returns while main sleeps in select() makes it fail EINTR *)
Interrupts(kk) == [kk EXCEPT !.eintr = @ \/ (l.pc = "in_select")]

(* 106: waitpid(-1, &status, WNOHANG) *)
waitpid_nohang(kk) ==
  IF kk.child = "zombie" THEN ChildPid
  ELSE IF kk.child = "running" THEN 0
  ELSE -1

(* 107: the comparison that decides on teardown *)
handler_matches(pid, gg) == pid = gg.child_pid

(* 103-110: the flag, the reaping, and cleanup_and_exit(0) on a match *)
signal_handler_chld(st) ==
  LET pid == waitpid_nohang(st.k)
      s1 == [st EXCEPT !.g.should_exit = TRUE,
                       !.k.child = IF @ = "zombie" THEN "reaped" ELSE @]
  IN  IF handler_matches(pid, s1.g) THEN cleanup("c_restore", s1)
      ELSE [s1 EXCEPT !.at = "return"]

(* the handler's frame ends: it returns to main, or exit(0) at line 70 ends *)
(* the process.  Its cleanup() never sleeps in waitpid: it gets there only  *)
(* after reaping the child itself, or with child_pid = -1.                  *)
HandlerOutcome(r) ==
  /\ r.at \in {"return", "c_ret"}
  /\ g' = r.g
  /\ IF r.at = "return"
     THEN /\ h' = [h EXCEPT !.pc = "none"]
          /\ k' = Interrupts(r.k)
          /\ x' = r.x
     ELSE /\ h' = [h EXCEPT !.pc = "done"]
          /\ k' = exit_(r.g, r.k, 0)
          /\ x' = IF l.atexit_restore THEN NoteRestore(r.x) ELSE r.x

(* SIGCHLD is delivered: the handler runs on top of whatever main is doing *)
DeliverChld ==
  /\ k.proc = "running" /\ ~k.lib
  /\ k.chld_pending /\ "SIGCHLD" \in k.installed
  /\ h.pc = "none"
  /\ \E r \in {signal_handler_chld([Now EXCEPT !.k.chld_pending = FALSE])} :
       HandlerOutcome(r)
  /\ UNCHANGED <<l, f>>

(* ------------------------------------------------------------------ *)
(* The asynchronous handlers that only store (lines 102-103, 114-120)   *)
(* and the environment: the child, the user, the senders of signals.    *)
(* An event the program cannot observe before its next look at the      *)
(* shared state is taken at that look: typing is seen by select() and   *)
(* read(), a stored flag by the statement that tests it.                *)
(* ------------------------------------------------------------------ *)
Alive == k.proc = "running" /\ ~k.lib

(* where main tests should_exit (559) or sleeps in select() (577) *)
FlagObserved == l.pc \in {"loop_test", "select", "in_select"}

(* where main looks at the resize flag, the wake pipe or the window size *)
WinchObserved ==
  l.pc \in {"pipe", "init_winsize", "init_resize", "select", "in_select",
            "drain_pipe", "winch_check", "winch_event", "winch_apply"}

(* a faulty variant: the handler also forgets the child *)
signal_handler_term_forgets(gg) == [gg EXCEPT !.should_exit = TRUE, !.child_pid = -1]

(* signal_handler(sig) for SIGINT, SIGTERM, SIGQUIT: line 103 only *)
signal_handler_term(gg) == [gg EXCEPT !.should_exit = TRUE]

(* a termination signal arrives; without a handler it kills the process *)
TermSignal ==
  /\ Alive
  /\ l.pc \notin {"parse", "done"}
  /\ \E sig \in TermSignals :
       IF sig \in k.installed
       THEN /\ FlagObserved
            /\ g' = signal_handler_term(g)
            /\ k' = Interrupts(k)
            /\ x' = [x EXCEPT !.term_seen = TRUE]
       ELSE /\ g' = g
            /\ k' = [k EXCEPT !.proc = "killed"]
            /\ x' = x
  /\ UNCHANGED <<l, h, f>>

(* a faulty variant: the resize handler also asks for shutdown *)
handle_winch_stops(gg, kk) ==
  [g |-> [gg EXCEPT !.winch_pending = 1, !.should_exit = TRUE],
   k |-> IF gg.winch_pipe_fds[2] >= 0 /\ kk.pipe_bytes < PipeCap
         THEN [kk EXCEPT !.pipe_bytes = @ + 1] ELSE kk]

(* 114-120: handle_winch; the write to a full pipe fails and is ignored *)
handle_winch(gg, kk) ==
  [g |-> [gg EXCEPT !.winch_pending = 1],
   k |-> IF gg.winch_pipe_fds[2] >= 0 /\ kk.pipe_bytes < PipeCap
         THEN [kk EXCEPT !.pipe_bytes = @ + 1] ELSE kk]

(* the terminal gets another size and SIGWINCH is delivered *)
Resized ==
  /\ \E ws \in WinSizes \ {k.tty_ws} :
       LET k1 == [k EXCEPT !.tty_ws = IF k.ctl_tty THEN ws ELSE @, !.resizes = @ + 1]
           r == handle_winch(g, k1)
       IN IF "SIGWINCH" \in k.installed
          THEN g' = r.g /\ k' = Interrupts(r.k)
          ELSE g' = g /\ k' = k1
  /\ UNCHANGED <<l, h, f, x>>

(* the terminal is resized (or SIGWINCH is sent) *)
Winch ==
  /\ Alive
  /\ WinchObserved
  /\ FaultsLeft > 0
  /\ Resized

(* the bytes numbered from+1 .. from+cnt of the child's output *)
ChildBytes(from, cnt) == [i \in 1..cnt |-> from + i]

(* the child writes one more byte to its terminal *)
ChildWrite ==
  /\ Alive
  /\ l.pc \in {"in_select", "m_read"}
  /\ k.child = "running" /\ k.master_open
  /\ k.childWrote < MaxOut
  /\ k' = [k EXCEPT !.ptybuf = Append(@, k.childWrote + 1), !.childWrote = @ + 1]
  /\ UNCHANGED <<g, l, h, f, x>>

(* the child writes its last cnt bytes and exits: SIGCHLD is generated, *)
(* and discarded at once while its disposition is still SIG_DFL         *)
ChildExit ==
  /\ Alive
  /\ k.child = "running"
  /\ \E cnt \in 0..(MaxOut - k.childWrote) :
       /\ cnt > 0 => k.master_open
       /\ k' = [k EXCEPT !.child = "zombie",
                         !.ptybuf = @ \o ChildBytes(k.childWrote, cnt),
                         !.childWrote = @ + cnt,
                         !.chld_pending = @ \/ ("SIGCHLD" \in k.installed)]
  /\ UNCHANGED <<g, l, h, f, x>>

(* a SIGCHLD that is not about the tracked child's exit *)
StrayChld ==
  /\ Alive
  /\ FlagObserved
  /\ "SIGCHLD" \in k.installed
  /\ ~k.chld_pending
  /\ k.child = "running"
  /\ k' = [k EXCEPT !.chld_pending = TRUE]
  /\ UNCHANGED <<g, l, h, f, x>>

(* the user types a byte, or standard input ends *)
UserType ==
  /\ Alive
  /\ l.pc \in {"in_select", "s_read"}
  /\ ~k.stdin_eof /\ FaultsLeft > 0
  /\ k' = [k EXCEPT !.stdin_buf = Append(@, 100 + k.typed), !.typed = @ + 1]
  /\ UNCHANGED <<g, l, h, f, x>>

StdinEof ==
  /\ Alive
  /\ l.pc \in {"in_select", "s_read"}
  /\ ~k.stdin_eof
  /\ k' = [k EXCEPT !.stdin_eof = TRUE]
  /\ UNCHANGED <<g, l, h, f, x>>

(* ------------------------------------------------------------------ *)
(* The library build (BUILD_TERM_CAPTURE_AS_LIB): there is no main(); a *)
(* driver sets the statics through the hooks of lines 244-261 and calls *)
(* cleanup() and restore_terminal() directly; cleanup_and_exit returns. *)
(* ------------------------------------------------------------------ *)
LibCall == k.lib /\ l.pc = "lib" /\ x.lib_ops < MaxLibOps

LibNote(xx, name) == [xx EXCEPT !.lib_last = name, !.lib_ops = @ + 1]

(* 251-254 *)
set_winch_pipe_fds_for_test ==
  /\ LibCall
  /\ \E fds \in {<<-1, -1>>, <<FdPipeR, FdPipeW>>} :
       g' = [g EXCEPT !.winch_pipe_fds = fds]
  /\ x' = LibNote(x, "set_winch_pipe_fds")
  /\ UNCHANGED <<l, h, f, k>>

(* 250: the descriptor handed over is an open one, or -1 *)
set_master_fd_for_test ==
  /\ LibCall
  /\ \E fd \in {-1, FdMaster} :
       /\ g' = [g EXCEPT !.masterFd = fd]
       /\ k' = [k EXCEPT !.master_open = @ \/ (fd >= 0)]
  /\ x' = LibNote(x, "set_master_fd")
  /\ UNCHANGED <<l, h, f>>

(* 249: -1, or the pid of a child the driver has just forked *)
set_child_pid_for_test ==
  /\ LibCall
  /\ \E pid \in {-1, ChildPid} :
       /\ g' = [g EXCEPT !.child_pid = pid]
       /\ k' = [k EXCEPT !.child = IF pid > 0 /\ @ = "none" THEN "running" ELSE @]
  /\ x' = LibNote(x, "set_child_pid")
  /\ UNCHANGED <<l, h, f>>

(* 255 *)
set_have_orig_termios_for_test ==
  /\ LibCall
  /\ \E v \in BOOLEAN : g' = [g EXCEPT !.have_orig_termios = v]
  /\ x' = LibNote(x, "set_have_orig_termios")
  /\ UNCHANGED <<l, h, f, k>>

(* 257-260: tcgetattr(STDIN) into orig_termios; fails off a terminal *)
set_orig_termios_from_stdin_for_test ==
  /\ LibCall
  /\ g' = IF k.stdin_tty THEN [g EXCEPT !.orig_termios = k.term] ELSE g
  /\ x' = LibNote(x, "set_orig_termios_from_stdin")
  /\ UNCHANGED <<l, h, f, k>>

(* 256 *)
call_restore_terminal_for_test ==
  /\ LibCall
  /\ k' = restore_terminal(g, k)
  /\ x' = LibNote(NoteRestore(x), "restore_terminal")
  /\ UNCHANGED <<g, l, h, f>>

(* 246 *)
set_should_exit ==
  /\ LibCall
  /\ \E v \in BOOLEAN : g' = [g EXCEPT !.should_exit = v]
  /\ x' = LibNote(x, "set_should_exit")
  /\ UNCHANGED <<l, h, f, k>>

(* the driver calls signal_handler(SIGINT), (SIGTERM) or (SIGQUIT) *)
LibSignalHandler ==
  /\ LibCall
  /\ \E sig \in TermSignals : g' = signal_handler_term(g)
  /\ x' = LibNote(x, "signal_handler")
  /\ UNCHANGED <<l, h, f, k>>

(* the driver calls handle_winch(SIGWINCH) *)
LibHandleWinch ==
  /\ LibCall
  /\ \E r \in {handle_winch(g, k)} : g' = r.g /\ k' = r.k
  /\ x' = LibNote(x, "handle_winch")
  /\ UNCHANGED <<l, h, f>>

(* the driver reads one byte from the pipe it handed over (line 339 of  *)
(* the tests)                                                           *)
LibDrainPipe ==
  /\ k.lib /\ l.pc = "lib"
  /\ g.winch_pipe_fds[1] >= 0 /\ k.pipe_bytes > 0
  /\ k' = [k EXCEPT !.pipe_bytes = @ - 1]
  /\ UNCHANGED <<g, l, h, f, x>>

(* the driver calls cleanup(); it may sleep in waitpid (line 60) *)
LibCleanup ==
  /\ LibCall
  /\ \E r \in {cleanup("c_restore", [Now EXCEPT !.x = LibNote(x, "cleanup")])} :
        /\ g' = r.g /\ k' = r.k /\ x' = r.x
        /\ l' = Goto(IF r.at = "c_ret" THEN "lib" ELSE r.at)
  /\ UNCHANGED <<h, f>>

(* the sleeping waitpid returns and cleanup() runs to its end *)
LibResume ==
  /\ k.lib /\ l.pc \in CleanupLabels
  /\ CleanupCanStep(l.pc, Now)
  /\ \E r \in {cleanup(l.pc, Now)} :
        /\ g' = r.g /\ k' = r.k /\ x' = r.x
        /\ l' = Goto(IF r.at = "c_ret" THEN "lib" ELSE r.at)
  /\ UNCHANGED <<h, f>>

(* the driver's child ends, by itself or from cleanup()'s SIGTERM *)
LibChildExit ==
  /\ k.lib /\ k.child = "running"
  /\ k' = [k EXCEPT !.child = "zombie"]
  /\ UNCHANGED <<g, l, h, f, x>>

LibInit ==
  /\ g = InitG
  /\ l = [InitL EXCEPT !.pc = "lib"]
  /\ h = InitH
  /\ f = InitF
  /\ \E tty \in BOOLEAN, mode \in UserModes \cup {"raw"} :
        /\ ~tty => mode = "cooked"
        /\ k = [InitK(tty, tty, mode, <<80, 24>>) EXCEPT !.lib = TRUE]
  /\ x = InitX

LibNext ==
  \/ set_winch_pipe_fds_for_test \/ set_master_fd_for_test
  \/ set_child_pid_for_test \/ set_have_orig_termios_for_test
  \/ set_orig_termios_from_stdin_for_test \/ call_restore_terminal_for_test
  \/ set_should_exit \/ LibSignalHandler \/ LibHandleWinch \/ LibDrainPipe
  \/ LibCleanup \/ LibResume \/ LibChildExit

LibSpec == LibInit /\ [][LibNext]_vars

(* ------------------------------------------------------------------ *)
(* The program as a whole                                               *)
(* ------------------------------------------------------------------ *)
Setup ==
  \/ ParseArgs \/ OpenPt \/ PtsName \/ Fork \/ OpenLogs \/ OpenSidecars
  \/ WriteHeaders \/ WriteMeta \/ EnterRaw \/ InstallHandlers \/ MakePipe
  \/ InitWinsize \/ InitResize

Loop ==
  \/ LoopTest \/ SelectCall \/ SelectReturn \/ DrainPipe
  \/ WinchCheck \/ WinchEvent \/ WinchApply
  \/ StdinRead \/ StdinForward \/ StdinLog \/ StdinAdvance \/ StdinTidx
  \/ MasterRead \/ MasterForward \/ MasterLog \/ MasterAdvance \/ MasterTidx

Teardown == CloseLogs \/ CloseSidecars \/ MainCleanup \/ MainExit

Program == Setup \/ Loop \/ Teardown \/ DeliverChld

Environment ==
  \/ TermSignal \/ Winch \/ ChildWrite \/ ChildExit \/ StrayChld
  \/ UserType \/ StdinEof

Next == Program \/ Environment

Spec == Init /\ [][Next]_vars

(* ------------------------------------------------------------------ *)
(* The quiet session: nobody types, resizes or sends a termination      *)
(* signal and no call fails; the child writes, stops and exits when it  *)
(* likes.  The scheduler                                                *)
(* keeps running a runnable process and delivers a pending SIGCHLD; the *)
(* environment owes the program nothing.                                *)
(* ------------------------------------------------------------------ *)
QuietInit ==
  /\ g = InitG
  /\ l = InitL
  /\ h = InitH
  /\ f = InitF
  /\ \E tty \in BOOLEAN, ctl \in BOOLEAN :
        /\ tty => ctl
        /\ k = [InitK(tty, ctl, "cooked", <<80, 24>>) EXCEPT !.quota = 0]
  /\ x = InitX

QuietProgram ==
  \/ Setup
  \/ LoopTest \/ SelectCall \/ SelectReturn \/ DrainPipe \/ WinchCheck
  \/ StdinRead \/ MasterRead \/ MasterForward \/ MasterLog
  \/ MasterAdvance \/ MasterTidx
  \/ Teardown \/ DeliverChld

QuietNext == QuietProgram \/ ChildWrite \/ ChildExit \/ StrayChld

FairSpec ==
  QuietInit /\ [][QuietNext]_vars /\ WF_vars(QuietProgram) /\ WF_vars(DeliverChld)

(* The quiet session whose standard input may end at any moment (a      *)
(* finite piped input), under the same scheduling.                      *)
EofNext == QuietNext \/ StdinEof

EofSpec ==
  QuietInit /\ [][EofNext]_vars /\ WF_vars(QuietProgram) /\ WF_vars(DeliverChld)

(* The quiet session on a terminal that is resized while the relay     *)
(* loop runs: nobody types or sends a termination signal and no call of *)
(* the running session fails, so the wake pipe and the event log exist. *)
(* resizes in one session *)
MaxWinch == 2

LoopLabels ==
  {"loop_test", "select", "in_select", "drain_pipe", "winch_check", "winch_event",
   "winch_apply", "s_read", "s_fwd", "s_log", "s_adv", "s_tidx",
   "m_read", "m_fwd", "m_log", "m_adv", "m_tidx"}

WinchInit ==
  /\ g = InitG
  /\ l = InitL
  /\ h = InitH
  /\ f = InitF
  /\ \E tty \in BOOLEAN, ctl \in BOOLEAN :
        /\ tty => ctl
        /\ k = [InitK(tty, ctl, "cooked", <<80, 24>>) EXCEPT !.quota = 0]
  /\ x = InitX

(* SIGWINCH while the loop runs *)
LoopWinch ==
  /\ Alive
  /\ WinchObserved /\ l.pc \in LoopLabels
  /\ k.resizes < MaxWinch
  /\ Resized

(* main()'s own steps; the handler of SIGCHLD runs in between *)
WinchMain ==
  \/ Setup
  \/ LoopTest \/ SelectCall \/ SelectReturn \/ DrainPipe
  \/ WinchCheck \/ WinchEvent \/ WinchApply
  \/ StdinRead \/ MasterRead \/ MasterForward \/ MasterLog
  \/ MasterAdvance \/ MasterTidx
  \/ Teardown

WinchNext ==
  WinchMain \/ DeliverChld \/ LoopWinch \/ ChildWrite \/ ChildExit \/ StrayChld

(* main() keeps running however many signals arrive, and a pending      *)
(* SIGCHLD is delivered                                                 *)
WinchSpec ==
  WinchInit /\ [][WinchNext]_vars /\ WF_vars(WinchMain) /\ WF_vars(DeliverChld)

(* ------------------------------------------------------------------ *)
(* The session in which the user types while calls may fail: nobody     *)
(* resizes the terminal or sends a termination signal.                  *)
(* ------------------------------------------------------------------ *)
(* typed bytes plus failing calls in one session *)
MaxTypeDisturb == 2

TypeInit ==
  /\ g = InitG
  /\ l = InitL
  /\ h = InitH
  /\ f = InitF
  /\ \E tty \in BOOLEAN, ctl \in BOOLEAN :
        /\ tty => ctl
        /\ k = [InitK(tty, ctl, "cooked", <<80, 24>>) EXCEPT !.quota = MaxTypeDisturb]
  /\ x = InitX

TypeMain ==
  \/ Setup
  \/ LoopTest \/ SelectCall \/ SelectReturn \/ DrainPipe \/ WinchCheck
  \/ StdinRead \/ StdinForward \/ StdinLog \/ StdinAdvance \/ StdinTidx
  \/ MasterRead \/ MasterForward \/ MasterLog \/ MasterAdvance \/ MasterTidx
  \/ Teardown

TypeNext == TypeMain \/ DeliverChld \/ UserType \/ ChildWrite \/ ChildExit

TypeSpec == TypeInit /\ [][TypeNext]_vars

(* ------------------------------------------------------------------ *)
(* parse_arguments and build_exec_argv, lines 122-242, on their own.    *)
(* A token is the sequence of its characters; argv is the sequence of   *)
(* the tokens after argv[0].                                            *)
(* ------------------------------------------------------------------ *)
(* tokens on a command line *)
MaxArgs == 4

Sentinel == <<"-", "-">>

K_allow ==
  <<"-", "-", "w", "s", "-", "a", "l", "l", "o", "w", "-", "r", "e", "m", "o", "t", "e">>

K_listen == <<"-", "-", "w", "s", "-", "l", "i", "s", "t", "e", "n">>

K_token == <<"-", "-", "w", "s", "-", "t", "o", "k", "e", "n">>

K_sendbuf ==
  <<"-", "-", "w", "s", "-", "s", "e", "n", "d", "-", "b", "u", "f", "f", "e", "r">>

ValueFlags == {K_listen, K_token, K_sendbuf}

(* the tokens tried: empty, a word, a number, a number followed by a    *)
(* letter, an unknown flag, the sentinel, and the flags in both forms   *)
Tokens ==
  {<<>>, <<"p">>, <<"7">>, <<"7", "p">>, <<"-", "x">>, Sentinel,
   K_allow, K_listen, K_token, K_sendbuf,
   K_listen \o <<"=", "p">>,
   K_sendbuf \o <<"=">>, K_sendbuf \o <<"=", "7">>, K_sendbuf \o <<"=", "p">>,
   K_sendbuf \o <<"=", "7", "p">>}

ArgVectors == UNION {[1..n -> Tokens] : n \in 0..MaxArgs}

(* Config as default-constructed, term-capture.hpp 9-21 *)
InitConfig ==
  [log_prefix |-> <<>>, command_and_args |-> <<>>, valid |-> TRUE,
   error_message |-> <<>>, ws_listen |-> <<>>, ws_token |-> <<>>,
   ws_allow_remote |-> FALSE, ws_send_buffer |-> 0]

(* valid = false with a message: the message's fixed text and its argument *)
parse_error(config, text, arg) ==
  [config EXCEPT !.valid = FALSE, !.error_message = <<text, arg>>]

(* 140-146 *)
parse_kv(str, key) ==
  LET prefix == key \o <<"=">>
  IN  IF IsPrefix(prefix, str) THEN Drop(str, Len(prefix)) ELSE <<>>

DigitChars == {"0", "1", "2", "3", "4", "5", "6", "7", "8", "9"}

DigitVal(c) ==
  CASE c = "0" -> 0 [] c = "1" -> 1 [] c = "2" -> 2 [] c = "3" -> 3 [] c = "4" -> 4
    [] c = "5" -> 5 [] c = "6" -> 6 [] c = "7" -> 7 [] c = "8" -> 8 [] c = "9" -> 9

(* the digits a string starts with *)
RECURSIVE LeadingDigits(_)
LeadingDigits(str) ==
  IF str = <<>> \/ Head(str) \notin DigitChars THEN <<>>
  ELSE <<Head(str)>> \o LeadingDigits(Tail(str))

RECURSIVE DigitsValue(_, _)
DigitsValue(ds, acc) ==
  IF ds = <<>> THEN acc ELSE DigitsValue(Tail(ds), 10 * acc + DigitVal(Head(ds)))

(* std::stoull(v), lines 172 and 194: it converts the digits the string  *)
(* starts with and ignores what follows them; it throws when there is   *)
(* no digit.  (No token tried here has white space, a sign or more than *)
(* a few digits.)                                                       *)
stoull(v) ==
  LET ds == LeadingDigits(v)
  IN  IF ds = <<>> THEN [ok |-> FALSE, value |-> 0]
      ELSE [ok |-> TRUE, value |-> DigitsValue(ds, 0)]

(* a faulty variant: tokens are taken for flags in the command too *)
flag_position_anywhere(in_command_args, arg) == arg # <<>> /\ arg[1] = "-"

(* 151 *)
flag_position(in_command_args, arg) ==
  ~in_command_args /\ arg # <<>> /\ arg[1] = "-"

(* a faulty variant: an empty prefix is let through *)
empty_prefix_accepted(arg) == FALSE

(* 210 *)
empty_prefix(arg) == arg = <<>>

(* 148-221: the loop body at index i, and the test after the loop 223 *)
RECURSIVE parse_loop(_, _, _, _, _)
parse_loop(argv, i, config, have_prefix, in_command_args) ==
  IF i > Len(argv)
  THEN IF ~have_prefix THEN parse_error(config, "Usage: ", <<>>) ELSE config
  ELSE
    LET arg == argv[i]
        kv_listen == parse_kv(arg, K_listen)
        kv_token == parse_kv(arg, K_token)
        kv_sendbuf == parse_kv(arg, K_sendbuf)
    IN
    IF flag_position(in_command_args, arg)
    THEN
      IF arg = Sentinel
      THEN parse_loop(argv, i + 1, config, have_prefix, TRUE)
      ELSE IF arg = K_allow
      THEN parse_loop(argv, i + 1, [config EXCEPT !.ws_allow_remote = TRUE],
                      have_prefix, in_command_args)
      ELSE IF kv_listen # <<>>
      THEN parse_loop(argv, i + 1, [config EXCEPT !.ws_listen = kv_listen],
                      have_prefix, in_command_args)
      ELSE IF kv_token # <<>>
      THEN parse_loop(argv, i + 1, [config EXCEPT !.ws_token = kv_token],
                      have_prefix, in_command_args)
      ELSE IF kv_sendbuf # <<>>
      THEN IF stoull(kv_sendbuf).ok
           THEN parse_loop(argv, i + 1,
                           [config EXCEPT !.ws_send_buffer = stoull(kv_sendbuf).value],
                           have_prefix, in_command_args)
           ELSE parse_error(config, "Invalid value for --ws-send-buffer: ", kv_sendbuf)
      ELSE IF arg \in ValueFlags
      THEN IF i + 1 > Len(argv)
           THEN parse_error(config, "Missing value for ", arg)
           ELSE LET val == argv[i + 1]
                IN  IF arg = K_listen
                    THEN parse_loop(argv, i + 2, [config EXCEPT !.ws_listen = val],
                                    have_prefix, in_command_args)
                    ELSE IF arg = K_token
                    THEN parse_loop(argv, i + 2, [config EXCEPT !.ws_token = val],
                                    have_prefix, in_command_args)
                    ELSE IF stoull(val).ok
                    THEN parse_loop(argv, i + 2,
                                    [config EXCEPT !.ws_send_buffer = stoull(val).value],
                                    have_prefix, in_command_args)
                    ELSE parse_error(config, "Invalid value for --ws-send-buffer: ", val)
      ELSE parse_error(config, "Unknown flag: ", arg)
    ELSE IF ~have_prefix
    THEN IF empty_prefix(arg)
         THEN parse_error(config, "Prefix cannot be empty.", <<>>)
         ELSE parse_loop(argv, i + 1, [config EXCEPT !.log_prefix = arg],
                         TRUE, in_command_args)
    ELSE parse_loop(argv, i + 1, [config EXCEPT !.command_and_args = Append(@, arg)],
                    have_prefix, TRUE)

(* 122-230; argc <= 1 is an argv with no token after argv[0] *)
parse_arguments(argv) ==
  IF Len(argv) = 0 THEN parse_error(InitConfig, "Usage: ", <<>>)
  ELSE parse_loop(argv, 1, InitConfig, FALSE, FALSE)

(* s.c_str() and nullptr *)
c_str(str) == [null |-> FALSE, str |-> str]

nullptr == [null |-> TRUE, str |-> <<>>]

(* a faulty variant: the terminator is forgotten *)
no_terminator(out) == out

(* 239 *)
push_back_nullptr(out) == Append(out, nullptr)

(* 232-242 *)
build_exec_argv(args) ==
  IF args # <<>>
  THEN push_back_nullptr([i \in 1..Len(args) |-> c_str(args[i])])
  ELSE <<>>

ArgInit ==
  /\ g = InitG /\ h = InitH /\ f = InitF /\ x = InitX
  /\ k = [InitK(FALSE, FALSE, "cooked", <<80, 24>>) EXCEPT !.lib = TRUE]
  /\ \E a \in ArgVectors :
        l = [pc |-> "args", argv |-> a, config |-> InitConfig, exec_argv |-> <<>>]

ParseArguments ==
  /\ l.pc = "args"
  /\ l' = [l EXCEPT !.pc = "parsed", !.config = parse_arguments(l.argv)]
  /\ UNCHANGED <<g, h, f, k, x>>

BuildExecArgv ==
  /\ l.pc = "parsed"
  /\ l' = [l EXCEPT !.pc = "built",
                    !.exec_argv = build_exec_argv(l.config.command_and_args)]
  /\ UNCHANGED <<g, h, f, k, x>>

ArgNext == ParseArguments \/ BuildExecArgv

ArgSpec == ArgInit /\ [][ArgNext]_vars

(* ------------------------------------------------------------------ *)
(* The varint codec on its own, as the unit tests drive it: a word is   *)
(* encoded and the encoding decoded, or a buffer of bytes that all      *)
(* carry the continuation bit is decoded, or an encoding of full length *)
(* with a chosen final byte.                                            *)
(* ------------------------------------------------------------------ *)
(* longest buffer handed to the decoder *)
MaxBufLen == 11

(* the words tried: 0, every run of ones a..b, every pair of bits *)
Words ==
  {{}} \cup {a..b : a, b \in 0..(WordBits - 1)}
       \cup {{a, b} : a, b \in 0..(WordBits - 1)}

(* bytes with the continuation bit: 0x80 and 0xFF *)
ContBytes == {128, 255}

RECURSIVE ContBuffers(_)
ContBuffers(len) ==
  IF len = 0 THEN {<<>>}
  ELSE {Append(b, c) : b \in ContBuffers(len - 1), c \in ContBytes}

(* final bytes of an encoding of full length: 0x01 is bit 63 of the     *)
(* word, the payload bits of 0x02 and 0x7F lie above it                 *)
FinalBytes == {1, 2, 127}

(* the bytes an encoding of a whole word has: ten *)
FullLen == (WordBits + 6) \div 7

VarintInit ==
  /\ g = InitG /\ h = InitH /\ f = InitF /\ x = InitX
  /\ k = [InitK(FALSE, FALSE, "cooked", <<80, 24>>) EXCEPT !.lib = TRUE]
  /\ \/ \E w \in Words :
          l = [pc |-> "word", from |-> "word", value |-> w, data |-> <<>>,
               res |-> uleb128_fail(0)]
     \/ \E len \in 0..MaxBufLen : \E b \in ContBuffers(len) :
          l = [pc |-> "buffer", from |-> "buffer", value |-> {}, data |-> b,
               res |-> uleb128_fail(0)]
     \/ \E b \in ContBuffers(FullLen - 1), last \in FinalBytes :
          l = [pc |-> "buffer", from |-> "final", value |-> {}, data |-> Append(b, last),
               res |-> uleb128_fail(0)]

VarintEncode ==
  /\ l.pc = "word"
  /\ l' = [l EXCEPT !.pc = "encoded", !.data = uleb128_encode_w(l.value)]
  /\ UNCHANGED <<g, h, f, k, x>>

VarintDecode ==
  /\ l.pc \in {"encoded", "buffer"}
  /\ l' = [l EXCEPT !.pc = "decoded", !.res = uleb128_decode_w(l.data)]
  /\ UNCHANGED <<g, h, f, k, x>>

VarintNext == VarintEncode \/ VarintDecode

VarintSpec == VarintInit /\ [][VarintNext]_vars

(* ------------------------------------------------------------------ *)
(* Readers of the sidecars                                              *)
(* ------------------------------------------------------------------ *)
(* magic(5) + flags(1) + started_at_unix_ns(8), and the same with EVT1 *)
TidxHeaderLen == 14
EventsHeaderLen == 13

(* the (t, end) pairs a reader accumulates from the records, until the *)
(* data ends or a varint does not decode                               *)
RECURSIVE parse_tidx_records(_, _, _)
parse_tidx_records(data, t, end) ==
  IF data = <<>> THEN <<>>
  ELSE LET r1 == uleb128_decode(data)
           rest == Drop(data, r1.consumed)
           r2 == uleb128_decode(rest)
       IN  IF ~r1.ok \/ ~r2.ok THEN <<>>
           ELSE <<<<t + r1.value, end + r2.value>>>>
                \o parse_tidx_records(Drop(rest, r2.consumed),
                                      t + r1.value, end + r2.value)

parse_tidx_file(data) ==
  IF Len(data) < TidxHeaderLen \/ Take(data, 5) # TidxMagic THEN <<>>
  ELSE parse_tidx_records(Drop(data, TidxHeaderLen), 0, 0)

(* resize records: type byte 1, then dt, doff, cols, rows as varints *)
RECURSIVE parse_resize_events(_, _, _)
parse_resize_events(data, t, off) ==
  IF data = <<>> \/ data[1] # 1 THEN <<>>
  ELSE LET r1 == uleb128_decode(Drop(data, 1))
           d2 == Drop(data, 1 + r1.consumed)
           r2 == uleb128_decode(d2)
           d3 == Drop(d2, r2.consumed)
           r3 == uleb128_decode(d3)
           d4 == Drop(d3, r3.consumed)
           r4 == uleb128_decode(d4)
       IN  IF ~r1.ok \/ ~r2.ok \/ ~r3.ok \/ ~r4.ok THEN <<>>
           ELSE <<<<t + r1.value, off + r2.value, r3.value, r4.value>>>>
                \o parse_resize_events(Drop(d4, r4.consumed),
                                       t + r1.value, off + r2.value)

parse_events_file(data) ==
  IF Len(data) < EventsHeaderLen \/ Take(data, 4) # EvtMagic THEN <<>>
  ELSE parse_resize_events(Drop(data, EventsHeaderLen), 0, 0)

(* a is b with some elements left out *)
RECURSIVE IsSubSeq(_, _)
IsSubSeq(a, b) ==
  IF a = <<>> THEN TRUE
  ELSE IF b = <<>> THEN FALSE
  ELSE IF Head(a) = Head(b) THEN IsSubSeq(Tail(a), Tail(b))
  ELSE IsSubSeq(a, Tail(b))

NonDecreasing(recs) ==
  \A i \in 1..(Len(recs) - 1) :
     recs[i][1] <= recs[i + 1][1] /\ recs[i][2] <= recs[i + 1][2]

Exited == k.proc = "exited"

(* ------------------------------------------------------------------ *)
(* Properties                                                           *)
(* ------------------------------------------------------------------ *)
(* C1: teardown runs exactly once per process run: under every          *)
(* interleaving of signal deliveries with main(), cleanup() is entered  *)
(* at most once, and never entered again from the signal handler.       *)
TeardownOnce == x.cleanups <= 1

(* C2: when cleanup() is called twice in succession, the second call    *)
(* finds the wake-channel ends, the master and child_pid at -1, closes  *)
(* no descriptor, and neither signals nor waits for the child.          *)
CleanupTwiceClosesNothing ==
  [][(k.lib /\ l.pc = "lib" /\ x.lib_last = "cleanup"
        /\ x'.lib_last = "cleanup" /\ x'.lib_ops = x.lib_ops + 1)
     => (/\ g.winch_pipe_fds = <<-1, -1>> /\ g.masterFd = -1 /\ g.child_pid = -1
         /\ x'.closes = x.closes /\ x'.kills = x.kills /\ x'.waits = x.waits)]_vars

(* a second cleanup() has returned after a first one that closed both   *)
(* pipe ends and the master and signalled and reaped a child            *)
CleanupTwiceSeen ==
  /\ k.lib /\ l.pc = "lib" /\ x.lib_last = "cleanup" /\ x.cleanups = 2
  /\ x.closes = <<"pipe_r", "pipe_w", "master">>
  /\ Len(x.kills) = 1 /\ Len(x.waits) = 1

(* C3: after a termination signal was handled while the relay loop runs *)
(* the process reaches exit status 0 by its own steps, without any      *)
(* further stdin, PTY or wake-channel event: it is never left asleep in *)
(* select() with nothing to wake it, and it exits with no other status. *)
TermSignalEndsLoop ==
  /\ ~(x.term_seen /\ Alive /\ l.pc = "in_select" /\ ~k.eintr /\ Ready = {})
  /\ (x.term_seen /\ Exited) => k.exit_code = 0

(* C4: whenever the child has exited, at any time after it was started  *)
(* (the setup's fallible steps passed) and with no termination signal   *)
(* sent, the capturing process eventually terminates with status 0.     *)
ChildExitEndsSession ==
  (Alive /\ l.logs_open /\ k.child \in {"zombie", "reaped"})
    ~> ((Exited /\ k.exit_code = 0) \/ x.term_seen \/ k.proc = "killed")

(* C5: when the process has terminated after the child exited by itself *)
(* every byte the child wrote to its PTY is in the output log, and with *)
(* nothing typed the input log is empty.                                *)
OutputComplete ==
  (Exited /\ k.exit_code = 0 /\ k.child = "reaped" /\ ~k.child_termed
     /\ ~x.term_seen /\ k.faults = 0)
  => (/\ f.output = ChildBytes(0, k.childWrote)
      /\ (k.typed = 0 => f.input = <<>>))

(* C6: at process termination, for each stream whose timing index is    *)
(* enabled and holds a record, the last reconstructed offset equals the *)
(* length of the stream's raw log (no write having failed).             *)
FinalOffsetIsLogLength ==
  LET outr == parse_tidx_file(f.output_tidx)
      inr == parse_tidx_file(f.input_tidx)
  IN  (Exited /\ k.faults = 0)
      => (/\ (l.output_tidx_fd >= 0 /\ outr # <<>>) => outr[Len(outr)][2] = Len(f.output)
          /\ (l.input_tidx_fd >= 0 /\ inr # <<>>) => inr[Len(inr)][2] = Len(f.input))

(* C7: for each stream the (elapsed, offset) pairs reconstructed from   *)
(* its timing index are non-decreasing in both components and are, in   *)
(* order, the (time, end offset) of batches appended to the raw log.    *)
IndexFollowsBatches ==
  LET outr == parse_tidx_file(f.output_tidx)
      inr == parse_tidx_file(f.input_tidx)
  IN  /\ NonDecreasing(outr) /\ IsSubSeq(outr, x.out_calls)
      /\ NonDecreasing(inr) /\ IsSubSeq(inr, x.in_calls)

(* C8: the reconstructed resize events are strictly ordered by elapsed  *)
(* time, and the stream offset of each is at most the length of the     *)
(* output log.                                                          *)
ResizeEventsOrdered ==
  LET ev == parse_events_file(f.events)
  IN  /\ \A i \in 1..(Len(ev) - 1) : ev[i][1] < ev[i + 1][1]
      /\ \A i \in 1..Len(ev) : ev[i][2] <= Len(f.output)

(* C9: once the terminal was switched to raw mode, whenever the process *)
(* has ended, on whatever path, the terminal's mode is the mode saved   *)
(* before raw mode was entered.                                         *)
ModeRestoredAtExit ==
  (x.raw_entered /\ k.proc # "running") => k.term = x.saved_mode

(* C10: every step that calls restore_terminal() leaves the terminal    *)
(* untouched when no mode was captured, and in exactly the captured     *)
(* mode otherwise, however many calls came before.                      *)
RestoreIdempotent ==
  [][x'.restores # x.restores
     => k'.term = (IF x.raw_entered THEN x.saved_mode ELSE k.term)]_vars

(* the process has ended after restore_terminal() ran more than once on *)
(* a captured mode                                                      *)
RestoredTwiceSeen ==
  Exited /\ x.raw_entered /\ x.restores >= 2 /\ k.term = x.saved_mode

(* the bytes typed so far, as UserType numbers them *)
TypedBytes == [i \in 1..k.typed |-> 100 + (i - 1)]

(* C11: when standard input is not a terminal, no terminal mode is ever  *)
(* captured and none is ever set, neither by the raw-mode entry nor by   *)
(* restore_terminal(), and the session relays and records as usual: the  *)
(* output log holds, in order, bytes the child wrote, and the input log  *)
(* bytes read from standard input.                                       *)
NoTerminalNoTermios ==
  ~k.stdin_tty
  => (/\ k.term = "cooked" /\ ~g.have_orig_termios /\ g.orig_termios = "zero"
      /\ ~l.atexit_restore /\ ~x.raw_entered
      /\ IsPrefix(f.output, k.to_stdout)
      /\ IsPrefix(k.to_stdout, ChildBytes(0, k.childWrote))
      /\ IsPrefix(f.input, TypedBytes))

(* a session off a terminal has relayed input and all the child's output *)
(* and has ended with status 0 after cleanup() called restore_terminal() *)
PipedSessionSeen ==
  /\ ~k.stdin_tty /\ Exited /\ k.exit_code = 0 /\ x.restores >= 1
  /\ f.output = ChildBytes(0, MaxOut) /\ f.input # <<>> /\ k.to_child = f.input

(* C12: a run of the SIGCHLD handler always sets should_exit, and when   *)
(* its waitpid(-1, WNOHANG) reaped nothing (it returned 0 or -1) or no   *)
(* child pid is recorded (child_pid is -1) it neither enters cleanup()   *)
(* nor ends the process.                                                 *)
ChldTeardownOnlyOnReap ==
  [][(k.chld_pending /\ ~k'.chld_pending)
     => (/\ g'.should_exit
         /\ (waitpid_nohang(k) <= 0 \/ g.child_pid = -1)
              => (x'.cleanups = x.cleanups /\ k'.proc = "running"))]_vars

(* C13: a SIGCHLD that is not about the tracked child's exit is ignored: *)
(* while the child is still running the relay loop is left only after a  *)
(* termination signal was handled or select() failed.                    *)
StrayChldIgnored ==
  (Alive /\ l.pc = "close_logs" /\ k.child = "running")
  => (x.term_seen \/ l.ret = "error")

(* C14: a call of the handler for SIGINT, SIGTERM or SIGQUIT sets        *)
(* should_exit and changes nothing else: child_pid, the master           *)
(* descriptor, the wake-channel descriptors, the resize flag and the     *)
(* terminal mode keep their values, and no teardown is performed.        *)
TermHandlerSetsOnlyFlag ==
  [][(x'.lib_last = "signal_handler" /\ x'.lib_ops = x.lib_ops + 1)
     => (/\ g' = [g EXCEPT !.should_exit = TRUE]
         /\ k' = k
         /\ x'.cleanups = x.cleanups /\ x'.closes = x.closes
         /\ x'.kills = x.kills /\ x'.waits = x.waits
         /\ x'.restores = x.restores)]_vars

(* the handler has just been called with a child, a master descriptor,  *)
(* the wake channel and a captured terminal mode all in place            *)
TermHandlerSeen ==
  /\ k.lib /\ x.lib_last = "signal_handler" /\ g.should_exit
  /\ g.child_pid = ChildPid /\ g.masterFd = FdMaster
  /\ g.winch_pipe_fds = <<FdPipeR, FdPipeW>> /\ g.have_orig_termios
  /\ k.child = "running" /\ x.cleanups = 0

(* C15: once standard input has reached end-of-file and the child has   *)
(* exited, the process eventually exits with status 0.                   *)
EofThenChildExitEnds ==
  (Alive /\ ~l.stdin_open /\ k.child \in {"zombie", "reaped"})
    ~> (Exited /\ k.exit_code = 0)

(* C16: when a read() of the iteration that just ended failed (n is -1, *)
(* on standard input or on the PTY master), the relay loop does not      *)
(* start another iteration: it never goes back to select().              *)
ReadFailureEndsLoop ==
  [][~(Alive /\ l.pc = "loop_test" /\ l.n = -1 /\ l'.pc = "select")]_vars

(* a sidecar was given up: its open or its header write failed *)
SidecarDegraded ==
  /\ l.started_unix_ns # 0
  /\ (l.input_tidx_fd < 0 \/ l.output_tidx_fd < 0 \/ l.output_events_fd < 0)

(* C17: the steps that open the sidecars and write their headers never   *)
(* end the process; with a sidecar given up its warning was printed and  *)
(* an exit has status 0; and at every turn of the relay loop, with or    *)
(* without sidecars, the raw logs hold every byte relayed so far.        *)
SidecarFailureNotFatal ==
  [][/\ (l.pc \in {"open_sidecars", "headers"} /\ l'.pc # l.pc)
          => (l'.pc \in {"headers", "meta"} /\ k'.proc = "running")
     /\ SidecarDegraded'
          => (/\ (l'.input_tidx_fd < 0 \/ l'.output_tidx_fd < 0) => "tidx" \in x'.warnings
              /\ l'.output_events_fd < 0 => "events" \in x'.warnings
              /\ k'.proc = "exited" => k'.exit_code = 0)
     /\ (k'.proc = "running" /\ l'.pc = "loop_test")
          => (/\ f'.output = k'.to_stdout
              /\ f'.output \o k'.ptybuf = ChildBytes(0, k'.childWrote)
              /\ f'.input \o k'.stdin_buf = [i \in 1..k'.typed |-> 100 + (i - 1)])]_vars

(* a session that gave a sidecar up has recorded all the child's output *)
(* and has ended with status 0 when the child exited by itself           *)
DegradedSessionSeen ==
  /\ SidecarDegraded /\ x.warnings # {} /\ Exited /\ k.exit_code = 0
  /\ k.child = "reaped" /\ ~k.child_termed /\ ~x.term_seen
  /\ f.output = ChildBytes(0, MaxOut)

(* the places of main() where the setup can fail: lines 266, 284, 293,  *)
(* 301 and 344                                                           *)
SetupFallible == {"parse", "openpt", "ptsname", "fork", "open_logs"}

(* C18: every setup failure (invalid arguments, posix_openpt, ptsname,  *)
(* fork, opening either raw log) ends the process with status 1, and a   *)
(* process that ended with status 1 never got past the setup: no         *)
(* sidecar, no signal handler, no raw mode, no relay loop.               *)
SetupFailureExitsOne ==
  [][/\ (l.pc \in SetupFallible /\ l'.pc = "done")
          => (k'.proc = "exited" /\ k'.exit_code = 1)
     /\ (k'.proc = "exited" /\ k'.exit_code = 1)
          => (/\ l.pc \in SetupFallible /\ l'.pc = "done"
              /\ ~l'.logs_open /\ l'.started_unix_ns = 0
              /\ k'.installed = {} /\ ~x'.raw_entered
              /\ f'.output = <<>> /\ f'.input = <<>>)]_vars

(* the process has ended with status 1 at the last fallible step of the *)
(* setup, the opening of the raw logs, with the child already forked     *)
LogOpenFailureSeen ==
  /\ Exited /\ k.exit_code = 1 /\ l.pc = "done"
  /\ g.child_pid = ChildPid /\ ~l.logs_open

(* C19: when the process has ended with status 1, no session state is   *)
(* left: there is no child, running or unreaped, the terminal is not in  *)
(* raw mode, and the master descriptor was not left open.                *)
NoSessionAfterSetupFailure ==
  (Exited /\ k.exit_code = 1)
  => (k.child = "none" /\ k.term # "raw" /\ ~k.master_open)

(* C20: when the process has ended with status 1 because a raw log      *)
(* could not be opened, no log file exists: neither raw log, no timing   *)
(* index, no resize-event log, no meta file.                             *)
LogOpenFailureLeavesNoFile ==
  (Exited /\ k.exit_code = 1 /\ g.child_pid = ChildPid) => f.exists = {}

(* C21: for every 64-bit word v, decoding the bytes of                  *)
(* uleb128_encode(v) succeeds, consumes the whole encoding and yields v. *)
VarintRoundTrip ==
  (l.pc = "decoded" /\ l.from = "word")
  => (l.res.ok /\ l.res.consumed = Len(l.data) /\ l.res.value = l.value)

(* the largest word, 2^64 - 1, went through its ten-byte encoding *)
MaxWordRoundTripSeen ==
  /\ l.pc = "decoded" /\ l.from = "word" /\ l.value = 0..(WordBits - 1)
  /\ Len(l.data) = 10 /\ l.res.ok /\ l.res.value = l.value

(* C22: decoding a buffer whose bytes all carry the continuation bit,   *)
(* the empty one included, fails with consumed = 0 and reads no byte at  *)
(* or beyond the buffer's length.                                        *)
TruncatedDecodeFails ==
  (l.pc = "decoded" /\ l.from = "buffer")
  => (~l.res.ok /\ l.res.consumed = 0 /\ l.res.reads <= Len(l.data))

(* a buffer longer than ten continuation bytes was refused at the tenth *)
OverlongBufferSeen ==
  /\ l.pc = "decoded" /\ l.from = "buffer" /\ Len(l.data) > 10
  /\ ~l.res.ok /\ l.res.reads = 10

(* ------------------------------------------------------------------ *)
(* The command line as the usage text reads it: flags, their values and *)
(* the sentinel on one side, positional tokens on the other.            *)
(* ------------------------------------------------------------------ *)
StartsWithDash(tok) == tok # <<>> /\ tok[1] = "-"

(* the positional tokens of a command line, in order; seen counts the   *)
(* positionals already met, verbatim says that flag parsing has ended   *)
RECURSIVE Positionals(_, _, _)
Positionals(s, seen, verbatim) ==
  IF s = <<>> THEN <<>>
  ELSE IF verbatim THEN s
  ELSE IF Head(s) = Sentinel THEN Positionals(Tail(s), seen, TRUE)
  ELSE IF Head(s) \in ValueFlags THEN Positionals(Drop(s, Min(2, Len(s))), seen, FALSE)
  ELSE IF StartsWithDash(Head(s)) THEN Positionals(Tail(s), seen, FALSE)
  ELSE <<Head(s)>> \o Positionals(Tail(s), seen + 1, seen >= 1)

(* C23: parse_arguments takes the first non-flag token as the log prefix *)
(* and the later positional tokens, in order, as the command; a result  *)
(* is valid exactly when its error message is empty; a valid result has *)
(* a non-empty prefix, and a command line with no prefix or an empty    *)
(* one gives an invalid result with a message.                          *)
ArgsPrefixThenCommand ==
  l.pc \in {"parsed", "built"} =>
    LET c == l.config
        pos == Positionals(l.argv, 0, FALSE)
    IN  /\ c.valid <=> c.error_message = <<>>
        /\ c.valid => /\ c.log_prefix # <<>>
                      /\ <<c.log_prefix>> \o c.command_and_args = pos
        /\ (pos = <<>> \/ Head(pos) = <<>>) => (~c.valid /\ c.error_message # <<>>)

(* a flag, the prefix and a two-token command ending in a dash token *)
FlagPrefixCommandSeen ==
  /\ l.pc = "parsed"
  /\ l.config.valid
  /\ l.argv[1] = K_allow
  /\ l.config.log_prefix = <<"p">>
  /\ l.config.command_and_args = << <<"7">>, <<"-", "x">> >>

(* the flags given before the command, in order, each with its value *)
RECURSIVE FlagItems(_, _)
FlagItems(s, seen) ==
  IF s = <<>> \/ Head(s) = Sentinel THEN <<>>
  ELSE IF Head(s) = K_allow THEN << <<K_allow, <<>> >> >> \o FlagItems(Tail(s), seen)
  ELSE IF Head(s) \in ValueFlags
  THEN IF Len(s) = 1 THEN <<>>
       ELSE << <<Head(s), s[2]>> >> \o FlagItems(Drop(s, 2), seen)
  ELSE IF \E key \in ValueFlags : parse_kv(Head(s), key) # <<>>
  THEN LET key == CHOOSE key \in ValueFlags : parse_kv(Head(s), key) # <<>>
       IN  << <<key, parse_kv(Head(s), key)>> >> \o FlagItems(Tail(s), seen)
  ELSE IF StartsWithDash(Head(s)) THEN FlagItems(Tail(s), seen)
  ELSE IF seen >= 1 THEN <<>>
  ELSE FlagItems(Tail(s), seen + 1)

(* the value given last for a flag *)
LastOf(items, key, default) ==
  LET at == {i \in DOMAIN items : items[i][1] = key}
  IN  IF at = {} THEN default
      ELSE items[CHOOSE i \in at : \A j \in at : j <= i][2]

(* the tokens after the sentinel or after the first command token *)
RECURSIVE LaterTokens(_, _)
LaterTokens(s, seen) ==
  IF s = <<>> THEN <<>>
  ELSE IF Head(s) = Sentinel THEN Tail(s)
  ELSE IF Head(s) \in ValueFlags THEN LaterTokens(Drop(s, Min(2, Len(s))), seen)
  ELSE IF StartsWithDash(Head(s)) THEN LaterTokens(Tail(s), seen)
  ELSE IF seen >= 1 THEN Tail(s)
  ELSE LaterTokens(Tail(s), seen + 1)

(* the WS fields hold what the flags before the command gave, last wins *)
FlagsAsGiven(c, argv) ==
  LET items == FlagItems(argv, 0)
      sendbuf == LastOf(items, K_sendbuf, <<>>)
  IN  /\ c.ws_listen = LastOf(items, K_listen, <<>>)
      /\ c.ws_token = LastOf(items, K_token, <<>>)
      /\ c.ws_allow_remote = (\E i \in DOMAIN items : items[i][1] = K_allow)
      /\ c.ws_send_buffer = IF sendbuf = <<>> THEN 0 ELSE stoull(sendbuf).value

(* C24: WS flags are recognised before and after the prefix, the last   *)
(* value of a repeated flag wins, and every token after the sentinel or *)
(* after the first command token is appended verbatim to                *)
(* command_and_args.                                                    *)
FlagsThenVerbatimCommand ==
  (l.pc \in {"parsed", "built"} /\ l.config.valid) =>
    /\ FlagsAsGiven(l.config, l.argv)
    /\ IsSuffix(LaterTokens(l.argv, 0), l.config.command_and_args)

(* C24, amended: as above, but the tokens after the sentinel are taken  *)
(* verbatim as positionals: with no prefix given before the sentinel    *)
(* the first of them is the prefix and only the others are the command. *)
FlagsThenVerbatimPositionals ==
  (l.pc \in {"parsed", "built"} /\ l.config.valid) =>
    LET later == LaterTokens(l.argv, 0)
    IN  /\ FlagsAsGiven(l.config, l.argv)
        /\ \/ IsSuffix(later, l.config.command_and_args)
           \/ later = <<l.config.log_prefix>> \o l.config.command_and_args

(* a flag, the sentinel, then a dash token as prefix and a command *)
SentinelBeforePrefixSeen ==
  /\ l.pc = "parsed"
  /\ l.config.valid
  /\ Len(l.argv) = 4
  /\ l.argv[2] = Sentinel
  /\ l.config.ws_listen = <<"p">>
  /\ l.config.log_prefix = <<"-", "x">>
  /\ l.config.command_and_args = << <<"p">> >>

IsNumeric(v) == v # <<>> /\ \A i \in DOMAIN v : v[i] \in DigitChars

InvalidSendBuffer(v) == <<"Invalid value for --ws-send-buffer: ", v>>

(* the first unknown flag, missing value or non-numeric send-buffer     *)
(* value of a command line, as the message that names it; <<>> when     *)
(* there is none before the command or before an empty prefix           *)
RECURSIVE FirstFault(_, _)
FirstFault(s, seen) ==
  IF s = <<>> \/ Head(s) = Sentinel THEN <<>>
  ELSE IF Head(s) = K_allow THEN FirstFault(Tail(s), seen)
  ELSE IF Head(s) \in ValueFlags
  THEN IF Len(s) = 1 THEN <<"Missing value for ", Head(s)>>
       ELSE IF Head(s) = K_sendbuf /\ ~IsNumeric(s[2]) THEN InvalidSendBuffer(s[2])
       ELSE FirstFault(Drop(s, 2), seen)
  ELSE IF IsPrefix(K_sendbuf \o <<"=">>, Head(s))
  THEN IF ~IsNumeric(parse_kv(Head(s), K_sendbuf))
       THEN InvalidSendBuffer(parse_kv(Head(s), K_sendbuf))
       ELSE FirstFault(Tail(s), seen)
  ELSE IF parse_kv(Head(s), K_listen) # <<>> \/ parse_kv(Head(s), K_token) # <<>>
  THEN FirstFault(Tail(s), seen)
  ELSE IF StartsWithDash(Head(s)) THEN <<"Unknown flag: ", Head(s)>>
  ELSE IF seen >= 1 \/ Head(s) = <<>> THEN <<>>
  ELSE FirstFault(Tail(s), seen + 1)

(* C25: an unknown flag before the command, a value-taking flag that is *)
(* the last token and a non-numeric --ws-send-buffer value (in either   *)
(* form) each give an invalid result whose message names the first such *)
(* cause.                                                               *)
ParseErrorsRejected ==
  (l.pc \in {"parsed", "built"} /\ FirstFault(l.argv, 0) # <<>>) =>
    (~l.config.valid /\ l.config.error_message = FirstFault(l.argv, 0))

(* C26: build_exec_argv gives an empty vector for an empty command and  *)
(* otherwise the n strings in order followed by the null terminator.    *)
ExecArgvNullTerminated ==
  l.pc = "built" =>
    LET args == l.config.command_and_args
        out == l.exec_argv
    IN  IF args = <<>> THEN out = <<>>
        ELSE /\ Len(out) = Len(args) + 1
             /\ \A i \in 1..Len(args) : out[i] = c_str(args[i])
             /\ out[Len(args) + 1] = nullptr

(* a two-token command has been turned into three pointers *)
ExecArgvBuiltSeen ==
  /\ l.pc = "built"
  /\ l.config.valid
  /\ Len(l.config.command_and_args) = 2
  /\ Len(l.exec_argv) = 3
  /\ l.exec_argv[2] = c_str(<<"-", "x">>)
  /\ l.exec_argv[3] = nullptr

(* C28: handle_winch sets the resize-pending flag and, when the wake    *)
(* pipe's write end exists, writes one byte to it (nothing when the     *)
(* pipe is full: the error is ignored); without a wake pipe it only     *)
(* sets the flag; it returns at once and changes nothing else.          *)
WinchHandlerFrame ==
  [][(x'.lib_last = "handle_winch" /\ x'.lib_ops # x.lib_ops) =>
       /\ g' = [g EXCEPT !.winch_pending = 1]
       /\ k' = [k EXCEPT !.pipe_bytes = k'.pipe_bytes]
       /\ k'.pipe_bytes = IF g.winch_pipe_fds[2] >= 0 /\ k.pipe_bytes < PipeCap
                          THEN k.pipe_bytes + 1 ELSE k.pipe_bytes
       /\ l' = l /\ h' = h /\ f' = f
       /\ x' = LibNote(x, "handle_winch")]_vars

(* the handler was called with a wake pipe and has left one byte in it *)
WinchHandlerWroteByteSeen ==
  /\ k.lib
  /\ x.lib_last = "handle_winch"
  /\ g.winch_pipe_fds[2] >= 0
  /\ g.winch_pending = 1
  /\ k.pipe_bytes = 1

(* the relay loop is running *)
LoopRuns == Alive /\ l.pc \in LoopLabels

(* the resize has been served: the flag is clear and, on a terminal,    *)
(* the child PTY has the terminal's size and the event log holds a      *)
(* record after the initial one                                         *)
ResizeServed ==
  /\ g.winch_pending = 0
  /\ l.pc \notin {"winch_event", "winch_apply"}
  /\ k.ctl_tty => /\ k.pty_ws = k.tty_ws
                  /\ Len(parse_events_file(f.events)) >= 2

OneRecordMore(recs1, recs2, off, ws) ==
  /\ Len(recs2) = Len(recs1) + 1
  /\ SubSeq(recs2, 1, Len(recs1)) = recs1
  /\ recs2[Len(recs2)][2] = off
  /\ recs2[Len(recs2)][3] = ws[1]
  /\ recs2[Len(recs2)][4] = ws[2]

ReadsNothing ==
  /\ k'.stdin_buf = k.stdin_buf /\ k'.ptybuf = k.ptybuf /\ k'.pipe_bytes = k.pipe_bytes
  /\ k'.to_child = k.to_child /\ k'.to_stdout = k.to_stdout
  /\ f'.input = f.input /\ f'.output = f.output
  /\ l'.stdin_open = l.stdin_open /\ l'.n = l.n /\ l'.buf = l.buf

(* C30: a select() that fails with EINTR is no error: the iteration     *)
(* serves a pending resize and goes back to the test of the shutdown    *)
(* flag, which retries the wait or ends the loop; it looks at no ready  *)
(* set and reads nothing.  Any other failure of select() ends the loop  *)
(* and goes to the teardown.                                            *)
EintrRetriesWait ==
  [][/\ (l.pc = "in_select" /\ l'.pc # l.pc) =>
          /\ l'.ret \in {"eintr", "ready", "error"}
          /\ l'.ret = "eintr" =>
                (l'.pc = "winch_check" /\ l'.after_winch = "loop_test" /\ l'.fds = {})
          /\ l'.ret = "error" => l'.pc = "close_logs"
          /\ l'.ret = "ready" => l'.pc = "drain_pipe"
     /\ (l.ret = "eintr" /\ l'.pc # l.pc) =>
          /\ l.pc \in {"winch_check", "winch_event", "winch_apply", "loop_test"}
          /\ l.fds = {}
          /\ ReadsNothing
          /\ l.pc = "winch_check" =>
                l'.pc = IF g.winch_pending # 0 THEN "winch_event" ELSE "loop_test"
          /\ l.pc = "winch_event" => l'.pc = "winch_apply"
          /\ l.pc = "winch_apply" => l'.pc = "loop_test"
          /\ l.pc = "loop_test" =>
                l'.pc = IF g.should_exit THEN "close_logs" ELSE "select"]_vars

(* a wait interrupted by SIGWINCH: the resize is served and the loop is *)
(* about to wait again                                                  *)
InterruptedWaitRetriedSeen ==
  /\ Alive
  /\ l.pc = "loop_test" /\ l.ret = "eintr"
  /\ ~g.should_exit
  /\ k.resizes = 1 /\ g.winch_pending = 0
  /\ k.ctl_tty /\ k.pty_ws = k.tty_ws

(* the index of a stream gains exactly the record (now, off), as a      *)
(* reader reconstructs it                                               *)
OneIndexRecordMore(old, new, t, off) ==
  parse_tidx_file(new) = Append(parse_tidx_file(old), <<t, off>>)

(* the files of one step of main() other than the named ones are kept   *)
RawLogsKept == f'.input = f.input /\ f'.output = f.output

IndexesKept == f'.input_tidx = f.input_tidx /\ f'.output_tidx = f.output_tidx

Occurrences(notes, v) == Cardinality({i \in 1..Len(notes) : notes[i] = v})

(* C32: child_pid is positive only while the child has not been reaped: *)
(* once the child has been reaped, by the handler's waitpid or by       *)
(* cleanup(), no later step sends a signal to that pid or waits on it,  *)
(* under every interleaving.                                            *)
ReapedChildLeftAlone ==
  /\ Occurrences(x.kills, "reaped") = 0
  /\ Occurrences(x.waits, "reaped") = 0

(* C33: the master and the two wake-channel descriptors are each closed *)
(* at most once, under every interleaving of the SIGCHLD handler with   *)
(* cleanup(), and the relay loop runs with the master open.             *)
DescriptorsClosedOnce ==
  /\ \A d \in {"master", "pipe_r", "pipe_w"} : Occurrences(x.closes, d) <= 1
  /\ (Alive /\ h.pc = "none" /\ l.pc \in LoopLabels) => k.master_open

(* main() has reached the relay loop: the logs and sidecars are opened  *)
(* and the PTY has its initial size                                     *)
ReachedLoop ==
  l.pc \in LoopLabels \cup {"close_logs", "close_sidecars"}
            \cup CleanupLabels \cup {"c_ret"}

(* lines 649-651 have closed every sidecar descriptor that was open *)
SidecarsClosed ==
  /\ l.input_tidx_fd >= 0 => Occurrences(x.closes, "input_tidx") = 1
  /\ l.output_tidx_fd >= 0 => Occurrences(x.closes, "output_tidx") = 1
  /\ l.output_events_fd >= 0 => Occurrences(x.closes, "events") = 1

(* C34: in a run that reached the relay loop, whatever ends it (the     *)
(* child exited, select() failed, a termination signal), the raw logs   *)
(* and the sidecar descriptors have been closed by the time cleanup()   *)
(* is entered, and so by the time the process exits.                    *)
DrainedBeforeTeardown ==
  (ReachedLoop /\ x.cleanups > 0) => (~l.logs_open /\ SidecarsClosed)

(* the sidecars' contents by name *)
SidecarData(s) ==
  CASE s = "input_tidx" -> f.input_tidx
    [] s = "output_tidx" -> f.output_tidx
    [] s = "events" -> f.events

(* the header a sidecar of this session starts with *)
SidecarHeader(s) ==
  IF s = "events" THEN events_header(l.started_unix_ns)
  ELSE tidx_header(l.started_unix_ns)

StartsWithHeader(s) == IsPrefix(SidecarHeader(s), SidecarData(s))

(* C35: sidecar degradation is isolated: a failure to open one sidecar  *)
(* or to write its header costs that sidecar only, so that once the     *)
(* loop is reached the number of sidecars without a header is at most   *)
(* the number of calls that failed.                                     *)
SidecarFailuresIsolated ==
  ReachedLoop =>
    Cardinality({s \in {"input_tidx", "output_tidx", "events"} : ~StartsWithHeader(s)})
      <= k.faults

(* C36: every timing-index file that has been written to starts with    *)
(* the 14-byte header (TIDX1, flags 0, the start timestamp as 8 bytes    *)
(* little-endian), and that timestamp is the one of the meta file.       *)
IndexFilesStartWithHeader ==
  /\ \A s \in {"input_tidx", "output_tidx"} :
        SidecarData(s) # <<>> =>
          (StartsWithHeader(s) /\ Len(SidecarHeader(s)) = TidxHeaderLen)
  /\ "meta" \in f.exists => f.meta = l.started_unix_ns

(* the bytes are a whole number of (dt, doff) pairs of varints *)
WholePairs(recs) ==
  \/ recs = <<>>
  \/ /\ recs[Len(recs)] < 128
     /\ Cardinality({i \in 1..Len(recs) : recs[i] < 128}) % 2 = 0

(* C37: a timing-index file is empty or is the header followed by whole *)
(* (dt, doff) pairs, also when one of the two index files could not be  *)
(* opened or the write of a record failed midway.                       *)
IndexFilesWellFramed ==
  \A s \in {"input_tidx", "output_tidx"} :
     SidecarData(s) # <<>> =>
       (StartsWithHeader(s) /\ WholePairs(Drop(SidecarData(s), TidxHeaderLen)))

(* C38: for every processed resize the cols and rows of the record      *)
(* written for it are the ones forwarded to the child's PTY for that    *)
(* same resize, also when the terminal changes size again while the     *)
(* resize is being processed.                                           *)
ResizeRecordMatchesPty ==
  [][(l.pc = "winch_apply" /\ l'.pc # l.pc /\ k.ctl_tty
        /\ l.output_events_fd >= 0 /\ g.masterFd >= 0)
     => LET ev == parse_events_file(f.events)
        IN  /\ ev # <<>>
            /\ k'.pty_ws = <<ev[Len(ev)][3], ev[Len(ev)][4]>>]_vars

(* C39: the bytes recorded in the input log are bytes delivered to the  *)
(* child's PTY, in order: no byte is logged as input unless it was      *)
(* written to the master, also when the write is short or fails.        *)
InputLogIsDelivered == IsPrefix(f.input, k.to_child)

(* the number a sequence of varint bytes stands for, as the set of its  *)
(* 1 bits: byte i carries bits 7(i-1) .. 7(i-1)+6                       *)
EncodedBits(data) ==
  {b + 7 * (i - 1) : b \in 0..6, i \in 1..Len(data)}
    \cap {p \in 0..(7 * Len(data)) :
            \E i \in 1..Len(data) : \E b \in BitsOf(data[i]) \ {7} : p = b + 7 * (i - 1)}

(* C40: uleb128_decode returns ok only when the number encoded by the   *)
(* bytes it consumed fits in 64 bits, and then returns exactly that     *)
(* number; an input that needs more than 64 bits is rejected, also a    *)
(* ten-byte input whose final byte has payload bits above bit 63.       *)
DecodeOkOnlyIfFits ==
  (l.pc = "decoded" /\ l.res.ok)
  => LET v == EncodedBits(Take(l.data, l.res.consumed))
     IN  v \subseteq 0..(WordBits - 1) /\ l.res.value = v
====
